---- MODULE Spec2Model ----
(***************************************************************************)
(* State-machine model of the coroutine runtime of coost (src/co/co.cc,    *)
(* src/co/sched.cc): schedulers with their task mailbox and timers, and    *)
(* the hybrid-waiter primitives co::mutex, co::event and co::wait_group.   *)
(* Coroutines run on the thread of their scheduler; non-coroutine threads  *)
(* block on the primitive's condition variable.                            *)
(***************************************************************************)
EXTENDS Integers, Sequences, FiniteSets, TLC

\* ------------------------------------------------------------------------
\* Bounds and the fixed population of the model
\* ------------------------------------------------------------------------
MutexOps == 5
EventOps == 3
GroupOps == 3
CounterBits == 2
MaxW == 3
ChanOps == 4
MaxCap == 2
SchedOps == 4
PlaceOps == 3
MaxT == 2

Scheds == {"s0", "s1"}
Coros == {"a", "b", "c"}
Threads == {"t", "u"}
Procs == Coros \cup Threads
None == "none"
Wids == 1..MaxW

\* co->sched: a coroutine belongs to one scheduler for its lifetime
SchedOf(c) == IF c = "c" THEN "s1" ELSE "s0"

VARIABLES
    pc,        \* position of every coroutine / thread in its current call
    ops,       \* number of API calls the processes may still start
    cst,       \* coroutine life cycle: "new", "run", "susp", "dead"
    newq,      \* TaskManager: new-task queue of each scheduler
    readyq,    \* TaskManager: ready-task queue of each scheduler (mailbox)
    batch,     \* Sched::loop local vector of tasks still to resume
    phase,     \* Sched::loop position: "idle", "tasks", "timers"
    running,   \* the coroutine executing on the scheduler thread, or None
    tmo,       \* Sched::_timeout
    timer,     \* TimerManager::_timer of each scheduler, in deadline order
    it,        \* co->it: the coroutine has a live timer handle
    crashed,   \* the process was terminated (fatal CHECK, abort)
    mlock,     \* mutex_impl::_lock
    mwq,       \* mutex_impl::_wq (None is the nullptr entry of a thread)
    counter,   \* the shared counter protected by the mutex
    tmp,       \* the value of counter a holder has read
    incs,      \* number of increments performed by holders
    enq,       \* waiters of the mutex in the order they were enqueued
    signaled,  \* event_impl::_signaled
    manual,    \* event_impl::_manual_reset
    wc,        \* event_impl::_wc, the list of coroutine waiters
    wt,        \* event_impl::_wt, the count of thread waiters
    sn,        \* event_impl::_sn, the signal serial
    wrec,      \* the heap of waitx_t records: alloc, state, co
    waitx,     \* co->waitx (0 is the null pointer)
    hl,        \* event_impl::signal local list h of each caller
    lsn,       \* event_impl::wait local sn of each thread
    lms,       \* the ms argument of the wait a process is in
    ret,       \* what the last wait() of a process returned
    notified,  \* threads woken by _cv.notify_all and not yet running
    wg,        \* event_impl::_wg, the wait-group counter
    wg0,       \* the n the wait_group was constructed with
    sumAdd,    \* sum of the n of all add(n) calls
    doneCnt,   \* number of done() calls that decremented the counter
    zeroSeen,  \* the counter has been 0 at some time
    atZero,    \* who was blocked in wait() when a done() brought the counter to 0
    cap,       \* pipe_impl: _buf_size / _blk_size, the capacity in blocks
    cms,       \* pipe_impl::_ms: "fin" or "inf" ((uint32_t)-1)
    rx,        \* pipe_impl::_rx, in blocks
    wx,        \* pipe_impl::_wx, in blocks
    full,      \* pipe_impl::_full
    ring,      \* pipe_impl::_buf, block by block (0 is a destroyed block)
    closed,    \* pipe_impl::_closed
    cwq,       \* pipe_impl::_wq, the list of waitx records
    wdone,     \* waitx::x.done of every record
    wval,      \* the element in waitx::buf of every record
    lw,        \* the local waitx* w of a process in read() or write()
    got,       \* the element the last read() of a process stored in *p
    nextv,     \* the next element the program will write
    wlog,      \* elements accepted by the channel, in the order accepted
    rlog,      \* elements taken out of the channel, in the order taken
    nw,        \* number of elements put in the ring or handed to a reader
    nrd,       \* number of read() calls that returned with done
    rclosed,   \* number of elements taken when close() stored 2 (-1 before)
    arg,       \* the element of the write() a process is blocked in (0: none)
    failed,    \* the elements whose write() returned without done
    nco,       \* g_nco, the warm-up counter of next_sched
    placed,    \* the scheduler indexes next_sched returned, in order
    nnew,      \* closures added to the new-task queue of each scheduler
    gi,        \* next_sched in progress: the index i a caller obtained
    cput,      \* Sched::_cputime of the scheduler at each index
    samp,      \* SchedInfo::cputime of every OS thread (thread_local)
    stopped,   \* Sched::_stopped
    evsig,     \* Sched::_ev: sync_event_impl::_signaled
    evwt,      \* Sched::_ev: sync_event_impl::_wt
    nstop,     \* number of stop() calls that found _stopped false
    starg,     \* the scheduler whose stop() a thread is in
    pools,     \* pool_impl::_pools, one vector of elements per scheduler
    dcb,       \* pool_impl::_dcb is set
    held,      \* the element a coroutine got from pop() (0: none)
    nextel,    \* the next element _ccb creates
    destroyed, \* the elements _dcb was called on
    nclr,      \* closures clear() started on each scheduler
    ran,       \* the closures of clear() that cleared their vector
    clearer,   \* the caller of clear(), None before the call
    ext        \* the state of the poller, the timer clock, the stack slots and
               \* the locks of the runtime, one field per member

procVars == <<pc, ops, cst>>
schedVars == <<newq, readyq, batch, phase, running, tmo, timer, it>>
mutexVars == <<mlock, mwq, counter, tmp, incs, enq>>
eventVars == <<signaled, manual, wc, wt, sn, wrec, waitx, hl, lsn, lms, ret,
               notified>>
wgVars == <<wg, wg0, sumAdd, doneCnt, zeroSeen, atZero>>
chanVars == <<cap, cms, rx, wx, full, ring, closed, cwq, wdone, wval, lw, got,
              nextv, wlog, rlog, nw, nrd>>
placeVars == <<nco, placed, nnew, gi, cput, samp>>

stopVars == <<stopped, evsig, evwt, nstop, starg>>
poolVars == <<pools, dcb, held, nextel, destroyed, nclr, ran, clearer>>
otherVars == <<stopVars, poolVars, ext>>

vars == <<procVars, schedVars, crashed, mutexVars, eventVars, wgVars, chanVars,
          placeVars, rclosed, arg, failed, otherVars>>

\* ------------------------------------------------------------------------
\* Helpers
\* ------------------------------------------------------------------------
RECURSIVE Without(_, _)
Without(q, x) ==
    IF q = <<>> THEN <<>>
    ELSE IF Head(q) = x THEN Tail(q)
    ELSE <<Head(q)>> \o Without(Tail(q), x)

InSeq(q, x) == \E i \in 1..Len(q) : q[i] = x

\* Sched::resume, lines 133-136: the timer map after the resume of a
\* suspended coroutine c, armed when co->it is not end()
TimerAfterResumeKept(q, armed, c) == q
TimerAfterResume(q, armed, c) == IF armed THEN Without(q, c) ELSE q

Count(q, x) == Cardinality({i \in 1..Len(q) : q[i] = x})

\* a process may issue an API call: it is between calls, has budget left
\* and, if it is a coroutine, it is the one running on its scheduler
CanCall(p) ==
    /\ ~crashed
    /\ pc[p] = "idle"
    /\ ops > 0
    /\ p \in Coros => cst[p] = "run"

\* a process executes the next step of the call it is in
AtStep(p, l) ==
    /\ ~crashed
    /\ pc[p] = l
    /\ p \in Coros => cst[p] = "run"

\* Sched::add_ready_task: append to the mailbox of the owning scheduler
AddReadyTask(q, c) == [q EXCEPT ![SchedOf(c)] = Append(@, c)]

\* Sched::yield returns in the coroutine when it is resumed
AfterYield(l) ==
    CASE l = "m_wait" -> "cs_r"
      [] l = "e_wait" -> "e_back"
      [] l = "r_wait" -> "r_back"
      [] l = "w_wait" -> "w_back"
      [] l = "cl_sleep" -> "cl_spin"
      [] l = "y_wait" -> "idle"
      [] OTHER -> l

\* ------------------------------------------------------------------------
\* Scheduler loop (Sched::loop, Sched::resume, TimerManager::check_timeout)
\* ------------------------------------------------------------------------
\* TaskManager::get_all_tasks: both queues are taken in one critical
\* section; the new tasks are resumed before the ready tasks
SchedWake(s) ==
    /\ ~crashed
    /\ phase[s] = "idle"
    /\ newq[s] # <<>> \/ readyq[s] # <<>> \/ timer[s] # <<>>
    /\ batch' = [batch EXCEPT ![s] = newq[s] \o readyq[s]]
    /\ newq' = [newq EXCEPT ![s] = <<>>]
    /\ readyq' = [readyq EXCEPT ![s] = <<>>]
    /\ phase' = [phase EXCEPT ![s] = "tasks"]
    /\ UNCHANGED <<procVars, running, tmo, timer, it, crashed, mutexVars,
                   eventVars, wgVars,
                   chanVars, placeVars, rclosed, arg, failed, otherVars>>

\* Sched::resume: jump into the coroutine at the head of the batch; the
\* timer of a suspended coroutine is removed first.  A recycled coroutine
\* has no context to jump to: the jump is undefined, the process may die.
SchedResume(s) ==
    /\ ~crashed
    /\ phase[s] \in {"tasks", "timers"}
    /\ running[s] = None
    /\ batch[s] # <<>>
    /\ LET c == Head(batch[s]) IN
         /\ batch' = [batch EXCEPT ![s] = Tail(@)]
         /\ IF cst[c] = "dead"
            THEN /\ crashed' \in BOOLEAN
                 /\ UNCHANGED <<cst, pc, running, timer, it, enq>>
            ELSE /\ cst' = [cst EXCEPT ![c] = "run"]
                 /\ running' = [running EXCEPT ![s] = c]
                 /\ pc' = [pc EXCEPT ![c] =
                             IF cst[c] = "new" THEN "idle" ELSE AfterYield(pc[c])]
                 /\ timer' = [timer EXCEPT ![s] =
                               TimerAfterResume(@, cst[c] = "susp" /\ it[c], c)]
                 /\ it' = IF cst[c] = "susp" THEN [it EXCEPT ![c] = FALSE] ELSE it
                 /\ enq' = IF pc[c] = "m_wait" THEN Without(enq, c) ELSE enq
                 /\ UNCHANGED crashed
    /\ UNCHANGED <<ops, newq, readyq, phase, tmo, mlock, mwq, counter, tmp,
                   incs, eventVars, wgVars,
                   chanVars, placeVars, rclosed, arg, failed, otherVars>>

\* the compare-and-swap of a waitx_t state from st_wait
CasWins(wr, w) == wr[w].state = "wait"

\* TimerManager::check_timeout over the expired entries exp, in order:
\* the records after the CAS wait -> timeout, and the coroutines to resume
ExpireAll(exp, wr, res) == [wr |-> wr, res |-> res \o exp]
RECURSIVE Expire(_, _, _)
Expire(exp, wr, res) ==
    IF exp = <<>> THEN [wr |-> wr, res |-> res]
    ELSE LET c == Head(exp)
             w == waitx[c]
         IN IF w = 0 THEN Expire(Tail(exp), wr, Append(res, c))
            ELSE IF CasWins(wr, w)
            THEN Expire(Tail(exp), [wr EXCEPT ![w].state = "timeout"],
                        Append(res, c))
            ELSE Expire(Tail(exp), wr, res)

\* Sched::loop after the tasks: check_timeout takes the entries whose
\* deadline has passed (a prefix of the ordered map) and the coroutines it
\* returns are resumed with _timeout set
SchedCheckTimeout(s) ==
    /\ ~crashed
    /\ phase[s] = "tasks"
    /\ running[s] = None
    /\ batch[s] = <<>>
    /\ \E k \in 0..Len(timer[s]) :
         LET exp == SubSeq(timer[s], 1, k)
             r == Expire(exp, wrec, <<>>)
         IN /\ timer' = [timer EXCEPT ![s] = SubSeq(@, k + 1, Len(@))]
            /\ it' = [c \in Coros |-> IF InSeq(exp, c) THEN FALSE ELSE it[c]]
            /\ wrec' = r.wr
            /\ batch' = [batch EXCEPT ![s] = r.res]
            /\ tmo' = [tmo EXCEPT ![s] = r.res # <<>>]
            /\ phase' = [phase EXCEPT ![s] = IF r.res # <<>> THEN "timers" ELSE "idle"]
    /\ UNCHANGED <<procVars, newq, readyq, running, crashed, mutexVars,
                   signaled, manual, wc, wt, sn, waitx, hl, lsn, lms, ret,
                   notified, wgVars,
                   chanVars, placeVars, rclosed, arg, failed, otherVars>>

\* Sched::loop: all timed-out coroutines were resumed, _timeout is reset
SchedEndIter(s) ==
    /\ ~crashed
    /\ phase[s] = "timers"
    /\ running[s] = None
    /\ batch[s] = <<>>
    /\ phase' = [phase EXCEPT ![s] = "idle"]
    /\ tmo' = [tmo EXCEPT ![s] = FALSE]
    /\ UNCHANGED <<procVars, newq, readyq, batch, running, timer, it, crashed,
                   mutexVars, eventVars, wgVars,
                   chanVars, placeVars, rclosed, arg, failed, otherVars>>

\* the closure of a coroutine returns: Sched::resume recycles it
CoEnd(c) ==
    /\ ~crashed
    /\ pc[c] = "idle"
    /\ cst[c] = "run"
    /\ cst' = [cst EXCEPT ![c] = "dead"]
    /\ pc' = [pc EXCEPT ![c] = "end"]
    /\ running' = [running EXCEPT ![SchedOf(c)] = None]
    /\ UNCHANGED <<ops, newq, readyq, batch, phase, tmo, timer, it, crashed,
                   mutexVars, eventVars, wgVars,
                   chanVars, placeVars, rclosed, arg, failed, otherVars>>

\* Sched::yield: back to the main context of the scheduler
YieldTo(c, l) ==
    /\ cst' = [cst EXCEPT ![c] = "susp"]
    /\ pc' = [pc EXCEPT ![c] = l]
    /\ running' = [running EXCEPT ![SchedOf(c)] = None]

\* ------------------------------------------------------------------------
\* co::mutex (mutex_impl)
\* ------------------------------------------------------------------------
Holding(p) == pc[p] \in {"cs_r", "cs_w", "m_unl"}

\* mutex_impl::try_lock
MutexTryLock(p) ==
    /\ CanCall(p)
    /\ ops' = ops - 1
    /\ IF mlock = 0
       THEN /\ mlock' = 1
            /\ pc' = [pc EXCEPT ![p] = "cs_r"]
       ELSE UNCHANGED <<mlock, pc>>
    /\ UNCHANGED <<cst, schedVars, crashed, mwq, counter, tmp, incs, enq,
                   eventVars, wgVars,
                   chanVars, placeVars, rclosed, arg, failed, otherVars>>

\* mutex_impl::lock, the part under _m
MutexLock(p) ==
    /\ CanCall(p)
    /\ ops' = ops - 1
    /\ IF mlock = 0
       THEN /\ mlock' = 1
            /\ pc' = [pc EXCEPT ![p] = "cs_r"]
            /\ UNCHANGED <<mwq, enq>>
       ELSE /\ mwq' = Append(mwq, IF p \in Coros THEN p ELSE None)
            /\ enq' = Append(enq, p)
            /\ pc' = [pc EXCEPT ![p] = IF p \in Coros THEN "m_yield" ELSE "m_cv"]
            /\ UNCHANGED mlock
    /\ UNCHANGED <<cst, schedVars, crashed, counter, tmp, incs, eventVars, wgVars,
                   chanVars, placeVars, rclosed, arg, failed, otherVars>>

\* mutex_impl::lock in a coroutine: sched->yield() after _m.unlock()
MutexLockYield(c) ==
    /\ c \in Coros
    /\ AtStep(c, "m_yield")
    /\ YieldTo(c, "m_wait")
    /\ UNCHANGED <<ops, newq, readyq, batch, phase, tmo, timer, it, crashed,
                   mutexVars, eventVars, wgVars,
                   chanVars, placeVars, rclosed, arg, failed, otherVars>>

\* mutex_impl::lock in a thread: _cv.wait(g) returns, after notify_one or
\* spuriously, in any of the threads blocked on _cv; the loop goes on only
\* when it finds _lock == 2
MutexLockWake(t) ==
    /\ t \in Threads
    /\ AtStep(t, "m_cv")
    /\ mlock = 2
    /\ mlock' = 1
    /\ pc' = [pc EXCEPT ![t] = "cs_r"]
    /\ enq' = Without(enq, t)
    /\ UNCHANGED <<ops, cst, schedVars, crashed, mwq, counter, tmp, incs,
                   eventVars, wgVars,
                   chanVars, placeVars, rclosed, arg, failed, otherVars>>

\* the holder reads the shared counter
CsRead(p) ==
    /\ AtStep(p, "cs_r")
    /\ tmp' = [tmp EXCEPT ![p] = counter]
    /\ pc' = [pc EXCEPT ![p] = "cs_w"]
    /\ UNCHANGED <<ops, cst, schedVars, crashed, mlock, mwq, counter, incs, enq,
                   eventVars, wgVars,
                   chanVars, placeVars, rclosed, arg, failed, otherVars>>

\* the holder writes the incremented value back
CsWrite(p) ==
    /\ AtStep(p, "cs_w")
    /\ counter' = tmp[p] + 1
    /\ incs' = incs + 1
    /\ pc' = [pc EXCEPT ![p] = "m_unl"]
    /\ UNCHANGED <<ops, cst, schedVars, crashed, mlock, mwq, tmp, enq,
                   eventVars, wgVars,
                   chanVars, placeVars, rclosed, arg, failed, otherVars>>

\* the lock byte mutex_impl::unlock leaves behind
UnlockByteFree(q, cur) == 0
UnlockByteTwo(q, cur) == IF q = <<>> THEN 0 ELSE 2
UnlockByteKept(q, cur) == IF q = <<>> THEN 0 ELSE cur
UnlockByte(q, cur) ==
    IF q = <<>> THEN 0
    ELSE IF Head(q) # None THEN cur
    ELSE 2

\* the entry mutex_impl::unlock takes from the waiter queue
UnlockPopBack(q) == q[Len(q)]
UnlockPop(q) == Head(q)

\* mutex_impl::unlock
MutexUnlock(p) ==
    /\ AtStep(p, "m_unl")
    /\ mlock' = UnlockByte(mwq, mlock)
    /\ pc' = [pc EXCEPT ![p] = "idle"]
    /\ IF mwq = <<>>
       THEN UNCHANGED <<mwq, readyq>>
       ELSE LET co == UnlockPop(mwq) IN
            /\ mwq' = Without(mwq, co)
            /\ readyq' = IF co # None THEN AddReadyTask(readyq, co) ELSE readyq
    /\ UNCHANGED <<ops, cst, newq, batch, phase, running, tmo, timer, it,
                   crashed, counter, tmp, incs, enq, eventVars, wgVars,
                   chanVars, placeVars, rclosed, arg, failed, otherVars>>

\* ------------------------------------------------------------------------
\* co::event (event_impl) and the waitx_t records of its coroutine waiters
\* ------------------------------------------------------------------------
MsArgs == {"zero", "fin", "inf"}

\* ::malloc: the allocator hands out the lowest free block
FreeIds == {w \in Wids : ~wrec[w].alloc}
Malloc == {w \in FreeIds : \A v \in FreeIds : w <= v}

\* ::free(w): the block returns to the allocator, its bytes stay
Free(r) == [r EXCEPT !.alloc = FALSE]

\* make_waitx(co)
MakeWaitx(c) == [alloc |-> TRUE, state |-> "wait", co |-> c]

\* event_impl::wait reuses a timed-out record: x->state = st_wait
ReuseWaitx(r, c) == [r EXCEPT !.state = "wait"]

\* event_impl::wait: the number of timed-out records at the front of _wc
RECURSIVE TombLen(_, _)
TombLen(q, wr) ==
    IF q = <<>> \/ wr[Head(q)].state # "timeout" THEN 0
    ELSE 1 + TombLen(Tail(q), wr)

\* event_impl::wait and signal: _signaled after a wait that found it set
WaitLatch(sig, man) == IF ~man THEN FALSE ELSE sig

\* event_impl::wait in a coroutine, the part under _m
EventWaitCo(c, ms) ==
    /\ c \in Coros
    /\ CanCall(c)
    /\ ops' = ops - 1
    /\ IF signaled
       THEN /\ signaled' = WaitLatch(signaled, manual)
            /\ ret' = [ret EXCEPT ![c] = "true"]
            /\ UNCHANGED <<pc, wc, wrec, waitx, lms>>
       ELSE IF ms = "zero"
       THEN /\ ret' = [ret EXCEPT ![c] = "false"]
            /\ UNCHANGED <<pc, signaled, wc, wrec, waitx, lms>>
       ELSE LET k == TombLen(wc, wrec)
                rest == SubSeq(wc, k + 1, Len(wc))
                dropped == {wc[i] : i \in 2..k}
            IN /\ \E x \in (IF k > 0 THEN {wc[1]} ELSE Malloc) :
                    /\ wrec' = [w \in Wids |->
                                  IF w = x
                                  THEN (IF k > 0 THEN ReuseWaitx(wrec[w], c)
                                        ELSE MakeWaitx(c))
                                  ELSE IF w \in dropped THEN Free(wrec[w])
                                  ELSE wrec[w]]
                    /\ waitx' = [waitx EXCEPT ![c] = x]
                    /\ wc' = Append(rest, x)
               /\ pc' = [pc EXCEPT ![c] = "e_arm"]
               /\ lms' = [lms EXCEPT ![c] = ms]
               /\ ret' = [ret EXCEPT ![c] = "none"]
               /\ UNCHANGED signaled
    /\ UNCHANGED <<cst, schedVars, crashed, mutexVars, manual, wt, sn, hl, lsn,
                   notified, wgVars,
                   chanVars, placeVars, rclosed, arg, failed, otherVars>>

\* event_impl::wait in a coroutine: add_timer(ms) unless ms is -1, yield
EventWaitArm(c) ==
    /\ c \in Coros
    /\ AtStep(c, "e_arm")
    /\ YieldTo(c, "e_wait")
    /\ IF lms[c] = "fin"
       THEN /\ timer' = [timer EXCEPT ![SchedOf(c)] = Append(@, c)]
            /\ it' = [it EXCEPT ![c] = TRUE]
       ELSE UNCHANGED <<timer, it>>
    /\ UNCHANGED <<ops, newq, readyq, batch, phase, tmo, crashed, mutexVars,
                   eventVars, wgVars,
                   chanVars, placeVars, rclosed, arg, failed, otherVars>>

\* event_impl::wait in a coroutine, after yield() has returned
EventWaitBack(c) ==
    /\ c \in Coros
    /\ AtStep(c, "e_back")
    /\ LET timedout == tmo[SchedOf(c)]
           x == waitx[c]
       IN /\ wrec' = IF ~timedout /\ x # 0
                     THEN [wrec EXCEPT ![x] = Free(@)] ELSE wrec
          /\ ret' = [ret EXCEPT ![c] = IF timedout THEN "false" ELSE "true"]
    /\ waitx' = [waitx EXCEPT ![c] = 0]
    /\ pc' = [pc EXCEPT ![c] = "idle"]
    /\ UNCHANGED <<ops, cst, schedVars, crashed, mutexVars, signaled, manual,
                   wc, wt, sn, hl, lsn, lms, notified, wg, wg0, sumAdd,
                   doneCnt, zeroSeen,
                   chanVars, placeVars, rclosed, arg, failed, otherVars>>
    /\ atZero' = atZero \ {c}

\* event_impl::wait in a thread, up to the wait on _cv
EventWaitTh(t, ms) ==
    /\ t \in Threads
    /\ CanCall(t)
    /\ ops' = ops - 1
    /\ IF signaled
       THEN /\ signaled' = WaitLatch(signaled, manual)
            /\ ret' = [ret EXCEPT ![t] = "true"]
            /\ UNCHANGED <<pc, wt, lsn, lms, notified>>
       ELSE IF ms = "zero"
       THEN /\ ret' = [ret EXCEPT ![t] = "false"]
            /\ UNCHANGED <<pc, signaled, wt, lsn, lms, notified>>
       ELSE /\ lsn' = [lsn EXCEPT ![t] = sn]
            /\ wt' = wt + 1
            /\ lms' = [lms EXCEPT ![t] = ms]
            /\ pc' = [pc EXCEPT ![t] = "e_cv"]
            /\ ret' = [ret EXCEPT ![t] = "none"]
            /\ notified' = notified \ {t}
            /\ UNCHANGED signaled
    /\ UNCHANGED <<cst, schedVars, crashed, mutexVars, manual, wc, sn, wrec,
                   waitx, hl, wgVars,
                   chanVars, placeVars, rclosed, arg, failed, otherVars>>

\* _cv.wait / _cv.wait_for returns no_timeout
CvReturn(t) ==
    /\ ret' = [ret EXCEPT ![t] = "true"]
    /\ pc' = [pc EXCEPT ![t] = "idle"]
    /\ notified' = notified \ {t}
    /\ UNCHANGED <<ops, cst, schedVars, crashed, mutexVars, signaled, manual,
                   wc, wt, sn, wrec, waitx, hl, lsn, lms, wg, wg0, sumAdd,
                   doneCnt, zeroSeen,
                   chanVars, placeVars, rclosed, arg, failed, otherVars>>
    /\ atZero' = atZero \ {t}

\* event_impl::wait in a thread: woken by notify_all
EventCvNotified(t) ==
    /\ t \in Threads
    /\ AtStep(t, "e_cv")
    /\ t \in notified
    /\ CvReturn(t)

\* event_impl::wait in a thread: a spurious wake-up of the condition
\* variable, which wait() does not tell from a notification
EventCvSpurious(t) ==
    /\ t \in Threads
    /\ AtStep(t, "e_cv")
    /\ t \notin notified
    /\ CvReturn(t)

\* event_impl::wait in a thread: wait_for returns timeout
EventCvTimeout(t) ==
    /\ t \in Threads
    /\ AtStep(t, "e_cv")
    /\ lms[t] = "fin"
    /\ wt' = IF lsn[t] = sn THEN wt - 1 ELSE wt
    /\ ret' = [ret EXCEPT ![t] = "false"]
    /\ pc' = [pc EXCEPT ![t] = "idle"]
    /\ notified' = notified \ {t}
    /\ UNCHANGED <<ops, cst, schedVars, crashed, mutexVars, signaled, manual,
                   wc, sn, wrec, waitx, hl, lsn, lms, wg, wg0, sumAdd,
                   doneCnt, zeroSeen,
                   chanVars, placeVars, rclosed, arg, failed, otherVars>>
    /\ atZero' = atZero \ {t}

\* event_impl::signal: the position of the first record of h whose CAS
\* wait -> ready succeeds, 0 if there is none
RECURSIVE FirstLive(_, _)
FirstLive(h, wr) ==
    IF h = <<>> THEN 0
    ELSE IF CasWins(wr, Head(h)) THEN 1
    ELSE LET r == FirstLive(Tail(h), wr) IN IF r = 0 THEN 0 ELSE r + 1

\* event_impl::signal: _signaled at the end of the critical section
SignalLatchNever(has_wt, has_wc, sig, man) == IF ~man THEN FALSE ELSE sig
SignalLatch(has_wt, has_wc, sig, man) ==
    IF has_wt \/ has_wc
    THEN (IF sig /\ ~man THEN FALSE ELSE sig)
    ELSE TRUE

\* the outcome of one CAS wait -> ready on record w in signal()
SignalCasBlind(wr, w) == [wr EXCEPT ![w].state = "ready"]
SignalCas(wr, w) ==
    IF CasWins(wr, w) THEN [wr EXCEPT ![w].state = "ready"]
    ELSE [wr EXCEPT ![w] = Free(@)]

\* event_impl::signal, the critical section under _m
SignalBody(p) ==
    LET has_wt == wt > 0
        k == IF has_wt THEN 0 ELSE FirstLive(wc, wrec)
        has_wc == k > 0
        tried == IF has_wt THEN {}
                 ELSE {i \in 1..Len(wc) : k = 0 \/ i <= k}
        h == IF has_wt THEN wc
             ELSE IF k > 0 THEN SubSeq(wc, k + 1, Len(wc))
             ELSE <<>>
    IN /\ wt' = 0
       /\ wc' = <<>>
       /\ wrec' = [w \in Wids |->
                     IF \E i \in tried : wc[i] = w
                     THEN SignalCas(wrec, w)[w] ELSE wrec[w]]
       /\ readyq' = IF has_wc THEN AddReadyTask(readyq, wrec[wc[k]].co)
                    ELSE readyq
       /\ signaled' = SignalLatch(has_wt, has_wc, signaled, manual)
       /\ sn' = IF has_wt THEN sn + 1 ELSE sn
       /\ notified' = IF has_wt
                      THEN notified \cup {t \in Threads : pc[t] = "e_cv"}
                      ELSE notified
       /\ hl' = [hl EXCEPT ![p] = h]
       /\ pc' = [pc EXCEPT ![p] = IF h = <<>> THEN "idle" ELSE "sig2"]

\* event_impl::signal
EventSignal(p) ==
    /\ CanCall(p)
    /\ ops' = ops - 1
    /\ SignalBody(p)
    /\ UNCHANGED <<cst, newq, batch, phase, running, tmo, timer, it, crashed,
                   mutexVars, manual, waitx, lsn, lms, ret, wgVars,
                   chanVars, placeVars, rclosed, arg, failed, otherVars>>

\* event_impl::signal, the loop over the rest of h after _m is released
SignalNext(p) ==
    /\ AtStep(p, "sig2")
    /\ LET w == Head(hl[p]) IN
         /\ wrec' = SignalCas(wrec, w)
         /\ readyq' = IF CasWins(wrec, w) THEN AddReadyTask(readyq, wrec[w].co)
                      ELSE readyq
    /\ hl' = [hl EXCEPT ![p] = Tail(@)]
    /\ pc' = [pc EXCEPT ![p] = IF Tail(hl[p]) = <<>> THEN "idle" ELSE "sig2"]
    /\ UNCHANGED <<ops, cst, newq, batch, phase, running, tmo, timer, it,
                   crashed, mutexVars, signaled, manual, wc, wt, sn, waitx,
                   lsn, lms, ret, notified, wgVars,
                   chanVars, placeVars, rclosed, arg, failed, otherVars>>

\* event_impl::reset
EventReset(p) ==
    /\ CanCall(p)
    /\ ops' = ops - 1
    /\ signaled' = FALSE
    /\ UNCHANGED <<pc, cst, schedVars, crashed, mutexVars, manual, wc, wt, sn,
                   wrec, waitx, hl, lsn, lms, ret, notified, wgVars,
                   chanVars, placeVars, rclosed, arg, failed, otherVars>>

\* ------------------------------------------------------------------------
\* co::wait_group: an auto-reset event_impl with the atomic counter _wg
\* ------------------------------------------------------------------------
\* the counter is a uint32_t; the model keeps CounterBits bits of it
WgMod == 2 ^ CounterBits
AllOnes == WgMod - 1

\* a process is blocked in wait(): a coroutine queued on the event (about to
\* yield or suspended), a thread waiting on the condition variable
Blocked(p) == pc[p] \in {"e_arm", "e_wait", "e_cv"}

\* std::atomic<uint32_t>::fetch_add: the new value of the counter
FetchAddWide(v, n) == v + n
FetchAdd(v, n) == (v + n) % WgMod

\* wait_group::add
WgAdd(p, n) ==
    /\ CanCall(p)
    /\ ops' = ops - 1
    /\ wg' = FetchAdd(wg, n)
    /\ sumAdd' = sumAdd + n
    /\ zeroSeen' = (zeroSeen \/ wg' = 0)
    /\ UNCHANGED <<pc, cst, schedVars, crashed, mutexVars, eventVars, wg0,
                   doneCnt, atZero,
                   chanVars, placeVars, rclosed, arg, failed, otherVars>>

\* wait_group::done: what follows the decrement to x
DoneNextAlways(x) == "sig1"
DoneNext(x) ==
    IF x = AllOnes THEN "fatal"
    ELSE IF x = 0 THEN "sig1"
    ELSE "idle"

\* wait_group::done: --_wg, CHECK(x != (uint32_t)-1), signal() if x == 0
WgDone(p) ==
    /\ CanCall(p)
    /\ ops' = ops - 1
    /\ LET x == (wg - 1) % WgMod IN
         /\ wg' = x
         /\ zeroSeen' = (zeroSeen \/ x = 0)
         /\ atZero' = IF x = 0 THEN atZero \cup {q \in Procs : Blocked(q)}
                       ELSE atZero
         /\ pc' = [pc EXCEPT ![p] = DoneNext(x)]
         /\ crashed' = (DoneNext(x) = "fatal")
    /\ doneCnt' = doneCnt + 1
    /\ UNCHANGED <<cst, schedVars, mutexVars, eventVars, wg0, sumAdd,
                   chanVars, placeVars, rclosed, arg, failed, otherVars>>

\* wait_group::done: e->signal(), the critical section
WgSignal(p) ==
    /\ AtStep(p, "sig1")
    /\ SignalBody(p)
    /\ UNCHANGED <<ops, cst, newq, batch, phase, running, tmo, timer, it,
                   crashed, mutexVars, manual, waitx, lsn, lms, ret, wgVars,
                   chanVars, placeVars, rclosed, arg, failed, otherVars>>

\* wait_group::wait: event_impl::wait((uint32_t)-1)
WgWait(p) == EventWaitCo(p, "inf") \/ EventWaitTh(p, "inf")

\* ------------------------------------------------------------------------
\* co::chan (pipe_impl): ring buffer, waiter queue, close
\* ------------------------------------------------------------------------
\* _rx += _blk_size; if (_rx == _buf_size) _rx = 0 (the same for _wx)
Inc(x) == IF x + 1 = cap THEN 0 ELSE x + 1

\* pipe_impl: the number of elements in the ring buffer
RingCount == IF full = 1 THEN cap ELSE (wx + cap - rx) % cap

\* pipe_impl::_read_block: the block at _rx is moved to *p
ReadBlockNewest == ring[(wx + cap - 1) % cap]
ReadBlock == ring[rx]

\* pipe_impl::is_closed: _closed.load() converted to bool
IsClosedDone == closed = 2
IsClosed == closed # 0

\* pipe_impl::create_waitx: w->co = co, w->state = st_wait, w->x.done = 0
CreateWaitx(co) == [alloc |-> TRUE, state |-> "wait", co |-> co]

\* read()/write()/close(): the position in _wq of the first record the
\* caller takes (with _ms == -1 the first one, else the first one whose CAS
\* wait -> ready succeeds), 0 if it takes none; close() always uses the CAS
PipeFirstAny(q, always_cas) == IF q = <<>> THEN 0 ELSE 1
PipeFirst(q, always_cas) ==
    IF q = <<>> THEN 0
    ELSE IF cms = "inf" /\ ~always_cas THEN 1
    ELSE FirstLive(q, wrec)

\* the records popped and freed before position k (all of them if k = 0)
DiscardedNone(q, k) == {}
Discarded(q, k) == {q[i] : i \in 1..(IF k = 0 THEN Len(q) ELSE k - 1)}

\* the heap after the caller took record w (0: none), marked it ready
\* unless the CAS is skipped, and freed the records in d
TakeRecKeep(w, d) ==
    [x \in Wids |->
        IF x = w /\ wrec[x].state = "wait" /\ cms = "fin"
        THEN [wrec[x] EXCEPT !.state = "ready"]
        ELSE wrec[x]]
TakeRec(w, d) ==
    [x \in Wids |->
        IF x \in d THEN Free(wrec[x])
        ELSE IF x = w /\ wrec[x].state = "wait" /\ cms = "fin"
        THEN [wrec[x] EXCEPT !.state = "ready"]
        ELSE wrec[x]]

\* w->co->sched->add_ready_task(w->co), or _cv.notify_all() for a thread
WakeRecNone(q, w) == q
WakeRec(q, w) == IF wrec[w].co # None THEN AddReadyTask(q, wrec[w].co) ELSE q

\* the log of accepted elements without the elements of the timed-out
\* writers whose records were discarded
ForgetAll(log, vs) == SelectSeq(log, LAMBDA x : x \notin vs)

\* _wq.push_back(w)
PushFront(q, w) == <<w>> \o q
PushBack(q, w) == Append(q, w)

\* read()/write(): _wq after the loop that pops records up to the first
\* one taken at position k, or all of them when none is taken (k = 0)
QueueRestKeep(q, k) == IF k = 0 THEN q ELSE SubSeq(q, k + 1, Len(q))
QueueRest(q, k) == IF k = 0 THEN <<>> ELSE SubSeq(q, k + 1, Len(q))

\* write(): if (_rx == _wx) _full = 1, after _write_block moved _wx to w
FullAfterWriteNever(w, r, f) == f
FullAfterWrite(w, r, f) == IF w = r THEN 1 ELSE f

\* the caller of read()/write() blocks: create_waitx and _wq.push_back
PipeBlock(p, v, l_co, l_th) ==
    \E w \in Malloc :
        /\ wrec' = [wrec EXCEPT ![w] = CreateWaitx(IF p \in Coros THEN p ELSE None)]
        /\ wdone' = [wdone EXCEPT ![w] = 0]
        /\ wval' = [wval EXCEPT ![w] = v]
        /\ cwq' = PushBack(cwq, w)
        /\ lw' = [lw EXCEPT ![p] = w]
        /\ pc' = [pc EXCEPT ![p] = IF p \in Coros THEN l_co ELSE l_th]
        /\ ret' = [ret EXCEPT ![p] = "none"]

\* pipe_impl::read, the part under _m
ChanRead(p) ==
    /\ CanCall(p)
    /\ ops' = ops - 1
    /\ IF rx # wx
       THEN \* neither empty nor full: _read_block
            /\ got' = [got EXCEPT ![p] = ReadBlock]
            /\ rlog' = Append(rlog, ReadBlock)
            /\ ring' = [ring EXCEPT ![rx] = 0]
            /\ rx' = Inc(rx)
            /\ ret' = [ret EXCEPT ![p] = "true"]
            /\ nrd' = nrd + 1
            /\ UNCHANGED <<pc, wx, full, cwq, wrec, wdone, wval, lw, readyq, nw,
                           wlog>>
       ELSE IF full = 1
       THEN \* full: _read_block, then the first blocked writer that has
            \* not timed out puts its element in the freed block
            LET k == PipeFirst(cwq, FALSE)
                d == Discarded(cwq, k)
            IN /\ got' = [got EXCEPT ![p] = ReadBlock]
               /\ rlog' = Append(rlog, ReadBlock)
               /\ rx' = Inc(rx)
               /\ ret' = [ret EXCEPT ![p] = "true"]
               /\ nrd' = nrd + 1
               /\ wrec' = TakeRec(IF k > 0 THEN cwq[k] ELSE 0, d)
               /\ wlog' = ForgetAll(wlog, {wval[x] : x \in d})
               /\ IF k > 0
                  THEN /\ ring' = [[ring EXCEPT ![rx] = 0] EXCEPT ![wx] = wval[cwq[k]]]
                       /\ wx' = Inc(wx)
                       /\ wdone' = [wdone EXCEPT ![cwq[k]] = 1]
                       /\ readyq' = WakeRec(readyq, cwq[k])
                       /\ cwq' = QueueRest(cwq, k)
                       /\ UNCHANGED <<full, nw>>
                  ELSE /\ ring' = [ring EXCEPT ![rx] = 0]
                       /\ full' = 0
                       /\ cwq' = QueueRest(cwq, k)
                       /\ UNCHANGED <<wx, wdone, readyq, nw>>
               /\ UNCHANGED <<pc, wval, lw>>
       ELSE IF IsClosed
       THEN \* empty and closed
            /\ ret' = [ret EXCEPT ![p] = "false"]
            /\ UNCHANGED <<pc, rx, wx, full, ring, cwq, wrec, wdone, wval, lw,
                           got, rlog, nrd, nw, readyq, wlog>>
       ELSE \* empty: wait for a writer
            /\ PipeBlock(p, 0, "r_arm", "r_cv")
            /\ UNCHANGED <<rx, wx, full, ring, got, rlog, nrd, nw, readyq, wlog>>
    /\ UNCHANGED <<cst, newq, batch, phase, running, tmo, timer, it, crashed,
                   mutexVars, signaled, manual, wc, wt, sn, waitx, hl, lsn, lms,
                   notified, wgVars, cap, cms, closed, nextv, placeVars, rclosed, arg, failed, otherVars>>

\* pipe_impl::write, the part under _m
ChanWrite(p) ==
    /\ CanCall(p)
    /\ ops' = ops - 1
    /\ nextv' = nextv + 1
    /\ IF IsClosed
       THEN /\ ret' = [ret EXCEPT ![p] = "false"]
            /\ UNCHANGED <<pc, wx, full, ring, cwq, wrec, wdone, wval, lw, wlog,
                           rlog, nw, readyq>>
       ELSE IF rx # wx
       THEN \* neither empty nor full: _write_block
            /\ ring' = [ring EXCEPT ![wx] = nextv]
            /\ wx' = Inc(wx)
            /\ full' = FullAfterWrite(Inc(wx), rx, full)
            /\ wlog' = Append(wlog, nextv)
            /\ nw' = nw + 1
            /\ ret' = [ret EXCEPT ![p] = "true"]
            /\ UNCHANGED <<pc, cwq, wrec, wdone, wval, lw, rlog, readyq>>
       ELSE IF full = 0
       THEN \* empty: hand the element to the first blocked reader that has
            \* not timed out, else _write_block
            LET k == PipeFirst(cwq, FALSE)
                d == Discarded(cwq, k)
            IN /\ wrec' = TakeRec(IF k > 0 THEN cwq[k] ELSE 0, d)
               /\ wlog' = Append(wlog, nextv)
               /\ nw' = nw + 1
               /\ ret' = [ret EXCEPT ![p] = "true"]
               /\ IF k > 0
                  THEN /\ wdone' = [wdone EXCEPT ![cwq[k]] = 1]
                       /\ wval' = [wval EXCEPT ![cwq[k]] = nextv]
                       /\ rlog' = Append(rlog, nextv)
                       /\ readyq' = WakeRec(readyq, cwq[k])
                       /\ cwq' = QueueRest(cwq, k)
                       /\ UNCHANGED <<ring, wx, full>>
                  ELSE /\ ring' = [ring EXCEPT ![wx] = nextv]
                       /\ wx' = Inc(wx)
                       /\ full' = FullAfterWrite(Inc(wx), rx, full)
                       /\ cwq' = QueueRest(cwq, k)
                       /\ UNCHANGED <<wdone, wval, rlog, readyq>>
               /\ UNCHANGED <<pc, lw>>
       ELSE \* full: wait for a reader
            /\ PipeBlock(p, nextv, "w_arm", "w_cv")
            /\ wlog' = Append(wlog, nextv)
            /\ UNCHANGED <<wx, full, ring, rlog, nw, readyq>>
    /\ UNCHANGED <<cst, newq, batch, phase, running, tmo, timer, it, crashed,
                   mutexVars, signaled, manual, wc, wt, sn, waitx, hl, lsn, lms,
                   notified, wgVars, cap, cms, closed, rx, got, nrd, placeVars, rclosed, otherVars>>
    /\ arg' = [arg EXCEPT ![p] = IF ret'[p] = "none" THEN nextv ELSE 0]
    /\ failed' = IF ret'[p] = "false" THEN failed \cup {nextv} ELSE failed

\* read()/write() in a coroutine: co->waitx = w, add_timer(_ms) unless
\* _ms is -1, yield
ChanArm(c) ==
    /\ c \in Coros
    /\ pc[c] \in {"r_arm", "w_arm"}
    /\ AtStep(c, pc[c])
    /\ waitx' = [waitx EXCEPT ![c] = lw[c]]
    /\ YieldTo(c, IF pc[c] = "r_arm" THEN "r_wait" ELSE "w_wait")
    /\ IF cms = "fin"
       THEN /\ timer' = [timer EXCEPT ![SchedOf(c)] = Append(@, c)]
            /\ it' = [it EXCEPT ![c] = TRUE]
       ELSE UNCHANGED <<timer, it>>
    /\ UNCHANGED <<ops, newq, readyq, batch, phase, tmo, crashed, mutexVars,
                   signaled, manual, wc, wt, sn, wrec, hl, lsn, lms, ret,
                   notified, wgVars, chanVars, placeVars, rclosed, arg, failed, otherVars>>

\* pipe_impl::read in a coroutine, after yield() has returned
ChanReadBack(c) ==
    /\ c \in Coros
    /\ AtStep(c, "r_back")
    /\ LET w == lw[c]
           ok == ~tmo[SchedOf(c)] /\ wdone[w] = 1
       IN /\ wrec' = IF ~tmo[SchedOf(c)] THEN [wrec EXCEPT ![w] = Free(@)] ELSE wrec
          /\ got' = IF ok THEN [got EXCEPT ![c] = wval[w]] ELSE got
          /\ nrd' = IF ok THEN nrd + 1 ELSE nrd
          /\ ret' = [ret EXCEPT ![c] = IF ok THEN "true" ELSE "false"]
    /\ waitx' = [waitx EXCEPT ![c] = 0]
    /\ pc' = [pc EXCEPT ![c] = "idle"]
    /\ UNCHANGED <<ops, cst, schedVars, crashed, mutexVars, signaled, manual,
                   wc, wt, sn, hl, lsn, lms, notified, wgVars, cap, cms, rx,
                   wx, full, ring, closed, cwq, wdone, wval, lw, nextv, wlog,
                   rlog, nw, placeVars, rclosed, arg, failed, otherVars>>

\* pipe_impl::write after yield(): if (!sched->timeout()) the write is done
WriteDoneAlways(c) == TRUE
WriteDone(c) == ~tmo[SchedOf(c)]

\* pipe_impl::write in a coroutine, after yield() has returned
ChanWriteBack(c) ==
    /\ c \in Coros
    /\ AtStep(c, "w_back")
    /\ wrec' = IF WriteDone(c) THEN [wrec EXCEPT ![lw[c]] = Free(@)] ELSE wrec
    /\ ret' = [ret EXCEPT ![c] = IF WriteDone(c) THEN "true" ELSE "false"]
    /\ nw' = IF WriteDone(c) THEN nw + 1 ELSE nw
    /\ waitx' = [waitx EXCEPT ![c] = 0]
    /\ pc' = [pc EXCEPT ![c] = "idle"]
    /\ UNCHANGED <<ops, cst, schedVars, crashed, mutexVars, signaled, manual,
                   wc, wt, sn, hl, lsn, lms, notified, wgVars, cap, cms, rx,
                   wx, full, ring, closed, cwq, wdone, wval, lw, got, nextv,
                   wlog, rlog, nrd, placeVars, rclosed, otherVars>>
    /\ arg' = [arg EXCEPT ![c] = 0]
    /\ failed' = IF arg[c] # 0 /\ ret'[c] = "false" THEN failed \cup {arg[c]}
                 ELSE failed

\* read()/write() in a thread: _cv.wait / wait_for returns and the record
\* has x.done set (a wake-up that finds x.done == 0 waits again)
ChanCvWake(t) ==
    /\ t \in Threads
    /\ pc[t] \in {"r_cv", "w_cv"}
    /\ AtStep(t, pc[t])
    /\ wdone[lw[t]] # 0
    /\ LET w == lw[t]
           rd == pc[t] = "r_cv" /\ wdone[w] = 1
       IN /\ wrec' = [wrec EXCEPT ![w] = Free(@)]
          /\ got' = IF rd THEN [got EXCEPT ![t] = wval[w]] ELSE got
          /\ nrd' = IF rd THEN nrd + 1 ELSE nrd
          /\ nw' = IF pc[t] = "w_cv" THEN nw + 1 ELSE nw
          /\ ret' = [ret EXCEPT ![t] = IF wdone[w] = 1 THEN "true" ELSE "false"]
    /\ pc' = [pc EXCEPT ![t] = "idle"]
    /\ UNCHANGED <<ops, cst, schedVars, crashed, mutexVars, signaled, manual,
                   wc, wt, sn, waitx, hl, lsn, lms, notified, wgVars, cap, cms,
                   rx, wx, full, ring, closed, cwq, wdone, wval, lw, nextv,
                   wlog, rlog, placeVars, rclosed, otherVars>>
    /\ arg' = [arg EXCEPT ![t] = 0]
    /\ failed' = IF arg[t] # 0 /\ ret'[t] = "false" THEN failed \cup {arg[t]}
                 ELSE failed

\* read()/write() in a thread: wait_for times out and the CAS
\* wait -> timeout succeeds
ChanCvTimeout(t) ==
    /\ t \in Threads
    /\ pc[t] \in {"r_cv", "w_cv"}
    /\ AtStep(t, pc[t])
    /\ cms = "fin"
    /\ CasWins(wrec, lw[t])
    /\ wrec' = [wrec EXCEPT ![lw[t]].state = "timeout"]
    /\ ret' = [ret EXCEPT ![t] = "false"]
    /\ pc' = [pc EXCEPT ![t] = "idle"]
    /\ UNCHANGED <<ops, cst, schedVars, crashed, mutexVars, signaled, manual,
                   wc, wt, sn, waitx, hl, lsn, lms, notified, wgVars, chanVars,
                   placeVars, rclosed, otherVars>>
    /\ arg' = [arg EXCEPT ![t] = 0]
    /\ failed' = IF arg[t] # 0 /\ ret'[t] = "false" THEN failed \cup {arg[t]}
                 ELSE failed

\* pipe_impl::close: the compare-and-swap of _closed from 0 to 1; the
\* winner goes on to the locked section, a caller that finds 1 waits, a
\* caller that finds 2 returns
CloseCasBlind(st) == "cl_lock"
CloseCas(st) == IF st = 0 THEN "cl_lock" ELSE IF st = 1 THEN "cl_spin" ELSE "idle"

ChanClose(p) ==
    /\ CanCall(p)
    /\ ops' = ops - 1
    /\ closed' = IF closed = 0 THEN 1 ELSE closed
    /\ pc' = [pc EXCEPT ![p] = CloseCas(closed)]
    /\ UNCHANGED <<cst, schedVars, crashed, mutexVars, eventVars, wgVars,
                   cap, cms, rx, wx, full, ring, cwq, wdone, wval, lw, got,
                   nextv, wlog, rlog, nw, nrd, placeVars, rclosed, arg, failed, otherVars>>

\* close(): the mailboxes after the loop over _wq woke every record whose
\* CAS wait -> ready succeeded (a thread is woken by _cv.notify_all)
CloseWakeNone(q, rq) == rq
CloseWake(q, rq) ==
    [s \in Scheds |->
        LET sel == SelectSeq(q, LAMBDA w : /\ CasWins(wrec, w)
                                           /\ wrec[w].co # None
                                           /\ SchedOf(wrec[w].co) = s)
        IN rq[s] \o [i \in 1..Len(sel) |-> wrec[sel[i]].co]]

\* pipe_impl::close, the section under _m of the caller that won the CAS
ChanCloseLock(p) ==
    /\ AtStep(p, "cl_lock")
    /\ IF rx = wx /\ full = 0
       THEN /\ wrec' = [x \in Wids |->
                          IF ~InSeq(cwq, x) THEN wrec[x]
                          ELSE IF CasWins(wrec, x)
                          THEN [wrec[x] EXCEPT !.state = "ready"]
                          ELSE Free(wrec[x])]
            /\ wdone' = [x \in Wids |->
                           IF InSeq(cwq, x) /\ CasWins(wrec, x) THEN 2
                           ELSE wdone[x]]
            /\ readyq' = CloseWake(cwq, readyq)
            /\ cwq' = <<>>
       ELSE UNCHANGED <<wrec, wdone, readyq, cwq>>
    /\ closed' = 2
    /\ rclosed' = Len(rlog)
    /\ pc' = [pc EXCEPT ![p] = "idle"]
    /\ UNCHANGED <<ops, cst, newq, batch, phase, running, tmo, timer, it,
                   crashed, mutexVars, signaled, manual, wc, wt, sn, waitx, hl,
                   lsn, lms, ret, notified, wgVars, cap, cms, rx, wx, full,
                   ring, wval, lw, got, nextv, wlog, rlog, nw, nrd, placeVars, arg, failed, otherVars>>

\* pipe_impl::close, a caller that found _closed == 1: it returns once
\* _closed is 2, and sleeps 1 ms otherwise (co::sleep in a coroutine adds a
\* timer and yields, in a thread it blocks the thread)
ChanCloseSpin(p) ==
    /\ AtStep(p, "cl_spin")
    /\ IF closed = 2
       THEN /\ pc' = [pc EXCEPT ![p] = "idle"]
            /\ UNCHANGED <<cst, running, timer, it>>
       ELSE /\ p \in Coros
            /\ YieldTo(p, "cl_sleep")
            /\ timer' = [timer EXCEPT ![SchedOf(p)] = Append(@, p)]
            /\ it' = [it EXCEPT ![p] = TRUE]
    /\ UNCHANGED <<ops, newq, readyq, batch, phase, tmo, crashed, mutexVars,
                   signaled, manual, wc, wt, sn, wrec, waitx, hl, lsn, lms,
                   ret, notified, wgVars, chanVars, placeVars, rclosed, arg, failed, otherVars>>

\* ------------------------------------------------------------------------
\* co::yield, co::resume and the placement of new coroutines (next_sched)
\* ------------------------------------------------------------------------
\* the OS threads: the scheduler threads and the other threads
OsThreads == Scheds \cup Threads

\* SchedManager::_scheds: the scheduler at index i
SchedAt(i) == IF i = 0 THEN "s0" ELSE "s1"

\* v.size() in the _next closures
NSched == Cardinality(Scheds)

\* co::yield: the running coroutine suspends itself
CoYield(c) ==
    /\ c \in Coros
    /\ CanCall(c)
    /\ ops' = ops - 1
    /\ YieldTo(c, "y_wait")
    /\ UNCHANGED <<newq, readyq, batch, phase, tmo, timer, it, crashed,
                   mutexVars, eventVars, wgVars, chanVars, placeVars, rclosed,
                   arg, failed, otherVars>>

\* co::resume(p): co->sched is the scheduler the coroutine was created on
ResumeTargetCaller(p, c) == IF p \in Coros THEN SchedOf(p) ELSE "s0"
ResumeTarget(p, c) == SchedOf(c)

\* co::resume called by process p for the suspended coroutine c
CoResume(p, c) ==
    /\ CanCall(p)
    /\ c \in Coros
    /\ pc[c] = "y_wait"
    /\ cst[c] = "susp"
    /\ \A s \in Scheds : ~InSeq(readyq[s], c) /\ ~InSeq(batch[s], c)
    /\ ops' = ops - 1
    /\ readyq' = [readyq EXCEPT ![ResumeTarget(p, c)] = Append(@, c)]
    /\ UNCHANGED <<pc, cst, newq, batch, phase, running, tmo, timer, it,
                   crashed, mutexVars, eventVars, wgVars, chanVars, placeVars,
                   rclosed, arg, failed, otherVars>>

\* next_sched: the test g_nco < v.size()
GoCheck(p) ==
    /\ CanCall(p)
    /\ ops' = ops - 1
    /\ pc' = [pc EXCEPT ![p] = IF nco < NSched THEN "ns_inc" ELSE "ns_rand"]
    /\ UNCHANGED <<cst, schedVars, crashed, mutexVars, eventVars, wgVars,
                   chanVars, placeVars, rclosed, arg, failed, otherVars>>

\* g_nco++ (fetch_add(1)): the value stored
NcoStuck(x) == x
NcoNext(x) == x + 1

\* next_sched: i = g_nco++; if (i < v.size()) return v[i]
GoInc(p) ==
    /\ AtStep(p, "ns_inc")
    /\ nco' = NcoNext(nco)
    /\ IF nco < NSched
       THEN /\ gi' = [gi EXCEPT ![p] = nco]
            /\ placed' = Append(placed, nco)
            /\ pc' = [pc EXCEPT ![p] = "ns_add"]
       ELSE /\ pc' = [pc EXCEPT ![p] = "ns_rand"]
            /\ UNCHANGED <<gi, placed>>
    /\ UNCHANGED <<ops, cst, schedVars, crashed, mutexVars, eventVars, wgVars,
                   chanVars, nnew, cput, samp, rclosed, arg, failed, otherVars>>

\* next_sched after the warm-up: i = co::rand(si.seed) & x (or % x)
GoRand(p) ==
    /\ AtStep(p, "ns_rand")
    /\ \E i \in 0..(NSched - 1) : gi' = [gi EXCEPT ![p] = i]
    /\ pc' = [pc EXCEPT ![p] = "ns_pick"]
    /\ UNCHANGED <<ops, cst, schedVars, crashed, mutexVars, eventVars, wgVars,
                   chanVars, nco, placed, nnew, cput, samp, rclosed, arg,
                   failed, otherVars>>

\* the OS thread process p runs on: sched_info() is thread_local
ThreadOf(p) == IF p \in Coros THEN SchedOf(p) ELSE p

\* k = i != x ? i + 1 : 0
Alt(i) == IF i # NSched - 1 THEN i + 1 ELSE 0

\* (si.cputime[k] == tk || ti <= (si.cputime[k] = tk)) ? v[i] : v[k]:
\* the index returned for first choice i, with ti and tk the cpu times read
\* and sk the caller's sample of k
TwoChoice(i, ti, tk, sk) == IF sk = tk \/ ti <= tk THEN i ELSE Alt(i)

\* the caller's sample of k after the expression: the assignment is
\* evaluated exactly when the first operand of || is false
NewSample(tk, sk) == IF sk = tk THEN sk ELSE tk

\* next_sched: ti = v[i]->cputime(), tk = v[k]->cputime() and the choice
GoPick(p) ==
    /\ AtStep(p, "ns_pick")
    /\ LET i == gi[p]
           k == Alt(i)
           r == TwoChoice(i, cput[i], cput[k], samp[ThreadOf(p)][k])
       IN /\ gi' = [gi EXCEPT ![p] = r]
          /\ placed' = Append(placed, r)
          /\ samp' = [samp EXCEPT ![ThreadOf(p)][k] = NewSample(cput[k], @)]
    /\ pc' = [pc EXCEPT ![p] = "ns_add"]
    /\ UNCHANGED <<ops, cst, schedVars, crashed, mutexVars, eventVars, wgVars,
                   chanVars, nco, nnew, cput, rclosed, arg, failed, otherVars>>

\* Sched::loop, end of an iteration: _cputime.fetch_add(timer.us())
SchedPublish(i) ==
    /\ ~crashed
    /\ cput[i] < MaxT
    /\ \E d \in 1..(MaxT - cput[i]) : cput' = [cput EXCEPT ![i] = @ + d]
    /\ UNCHANGED <<procVars, schedVars, crashed, mutexVars, eventVars, wgVars,
                   chanVars, nco, placed, nnew, gi, samp, rclosed, arg, failed, otherVars>>

\* co::go: next_sched()->add_new_task(cb)
GoAdd(p) ==
    /\ AtStep(p, "ns_add")
    /\ nnew' = [nnew EXCEPT ![SchedAt(gi[p])] = @ + 1]
    /\ pc' = [pc EXCEPT ![p] = "idle"]
    /\ UNCHANGED <<ops, cst, schedVars, crashed, mutexVars, eventVars, wgVars,
                   chanVars, nco, placed, gi, cput, samp, rclosed, arg,
                   failed, otherVars>>

\* ------------------------------------------------------------------------
\* Initial states
\* ------------------------------------------------------------------------
\* the schedulers after go() has submitted every closure, none started
InitSched ==
    /\ pc = [p \in Procs |-> "idle"]
    /\ cst = [c \in Coros |-> "new"]
    /\ newq = [s \in Scheds |-> IF s = "s0" THEN <<"a", "b">> ELSE <<"c">>]
    /\ readyq = [s \in Scheds |-> <<>>]
    /\ batch = [s \in Scheds |-> <<>>]
    /\ phase = [s \in Scheds |-> "idle"]
    /\ running = [s \in Scheds |-> None]
    /\ tmo = [s \in Scheds |-> FALSE]
    /\ timer = [s \in Scheds |-> <<>>]
    /\ it = [c \in Coros |-> FALSE]
    /\ crashed = FALSE

\* mutex_impl::mutex_impl
InitMutex ==
    /\ mlock = 0
    /\ mwq = <<>>
    /\ counter = 0
    /\ tmp = [p \in Procs |-> 0]
    /\ incs = 0
    /\ enq = <<>>

\* event_impl::event_impl(m, s, wg)
InitEvent(m, s, n) ==
    /\ signaled = s
    /\ manual = m
    /\ wc = <<>>
    /\ wt = 0
    /\ sn = 0
    /\ wrec = [w \in Wids |-> [alloc |-> FALSE, state |-> "wait", co |-> None]]
    /\ waitx = [c \in Coros |-> 0]
    /\ hl = [p \in Procs |-> <<>>]
    /\ lsn = [t \in Threads |-> 0]
    /\ lms = [p \in Procs |-> "inf"]
    /\ ret = [p \in Procs |-> "none"]
    /\ notified = {}
    /\ wg = n
    /\ wg0 = n
    /\ sumAdd = 0
    /\ doneCnt = 0
    /\ zeroSeen = (n = 0)
    /\ atZero = {}

\* pipe_impl::pipe_impl(buf_size, blk_size, ms, c, d), in units of blocks
InitChan(k, ms) ==
    /\ cap = k
    /\ cms = ms
    /\ rx = 0
    /\ wx = 0
    /\ full = 0
    /\ ring = [i \in 0..(MaxCap - 1) |-> 0]
    /\ closed = 0
    /\ cwq = <<>>
    /\ wdone = [w \in Wids |-> 0]
    /\ wval = [w \in Wids |-> 0]
    /\ lw = [p \in Procs |-> 0]
    /\ got = [p \in Procs |-> 0]
    /\ nextv = 1
    /\ wlog = <<>>
    /\ rlog = <<>>
    /\ nw = 0
    /\ nrd = 0
    /\ rclosed = -1
    /\ arg = [p \in Procs |-> 0]
    /\ failed = {}

\* SchedManager::SchedManager: g_nco is 0 and no closure has been placed
InitStop ==
    /\ stopped = [s \in Scheds |-> FALSE]
    /\ evsig = [s \in Scheds |-> FALSE]
    /\ evwt = [s \in Scheds |-> 0]
    /\ nstop = [s \in Scheds |-> 0]
    /\ starg = [t \in Threads |-> None]

\* pool_impl::pool_impl: _make_pools gives every scheduler a vector; v is
\* what earlier push() calls left in the vectors
InitPool(v, d) ==
    /\ pools = v
    /\ dcb = d
    /\ held = [c \in Coros |-> 0]
    /\ nextel = 4
    /\ destroyed = {}
    /\ nclr = [s \in Scheds |-> 0]
    /\ ran = {}
    /\ clearer = None

\* width of the millisecond arguments and of wait_ms (uint32_t in the
\* code), the last value of the clock, the number of timers added
TimerBits == 2
MaxNow == 3
ClockOps == 3

\* the coroutine descriptors of one scheduler (id 0 is the main
\* coroutine), its stack slots, the frames a coroutine may have on its
\* stack when it yields, and the number of yields
MaxDesc == 2
StackNum == 1
MaxVer == 2
StackOps == 3
Descs == 1..MaxDesc
Slots == 0..(StackNum - 1)

\* the std::mutex of the three kinds of primitive and of the mailbox
\* (TaskManager) of each scheduler; the OS threads that take them: the
\* scheduler threads, which run the coroutines, and one other thread
PrimLocks == {"mutex", "event", "chan"}
Locks == PrimLocks \cup Scheds
LkThreads == Scheds \cup {"t"}
LockOps == 3

\* no std::mutex is held, no thread is inside a call;
\* nothing is registered with the poller, the timer map is empty and
\* _wait_ms is (uint32_t)-1; no stack is allocated, no descriptor is in
\* use, the free list of the pool is empty
ExtInit ==
    [ioreg |-> {},
     now |-> 0,
     tmap |-> <<>>,
     waitms |-> (2 ^ TimerBits) - 1,
     res |-> <<>>,
     p |-> [k \in Slots |-> FALSE],
     occ |-> [k \in Slots |-> 0],
     mem |-> [k \in Slots |-> <<0, 0>>],
     ctx |-> [d \in Descs |-> 0],
     buf |-> [d \in Descs |-> <<0, 0>>],
     dst |-> [d \in Descs |-> "free"],
     seen |-> [d \in Descs |-> <<0, 0>>],
     srun |-> 0,
     ids |-> <<>>,
     nid |-> 1,
     lk |-> [l \in Locks |-> None],
     todo |-> [t \in LkThreads |-> <<>>],
     lop |-> [t \in LkThreads |-> None]]

InitOther ==
    /\ InitStop
    /\ InitPool([s \in Scheds |-> <<>>], FALSE)
    /\ ext = ExtInit

InitPlace ==
    /\ nco = 0
    /\ placed = <<>>
    /\ nnew = [s \in Scheds |-> 0]
    /\ gi = [p \in Procs |-> 0]
    /\ cput = [i \in 0..(NSched - 1) |-> 0]
    /\ samp = [t \in OsThreads |-> [i \in 0..(NSched - 1) |-> 0]]

\* ------------------------------------------------------------------------
\* The mutex under contention: coroutines of both schedulers and threads
\* lock, increment the shared counter and unlock
\* ------------------------------------------------------------------------
InitM ==
    /\ ops = MutexOps
    /\ InitSched
    /\ InitMutex
    /\ InitEvent(FALSE, FALSE, 0)
    /\ InitChan(1, "inf")
    /\ InitPlace
    /\ InitOther

NextM ==
    \/ \E s \in Scheds : SchedWake(s)
    \/ \E s \in Scheds : SchedResume(s)
    \/ \E s \in Scheds : SchedCheckTimeout(s)
    \/ \E c \in Coros : CoEnd(c)
    \/ \E p \in Procs : MutexTryLock(p)
    \/ \E p \in Procs : MutexLock(p)
    \/ \E c \in Coros : MutexLockYield(c)
    \/ \E t \in Threads : MutexLockWake(t)
    \/ \E p \in Procs : CsRead(p)
    \/ \E p \in Procs : CsWrite(p)
    \/ \E p \in Procs : MutexUnlock(p)

SpecMutex == InitM /\ [][NextM]_vars

\* the lock is owned: by the caller that holds it, by the coroutine waiter
\* unlock() has taken from the queue, or by the grant (byte 2) made to a
\* thread waiter
HandedOff(c) == pc[c] \in {"m_yield", "m_wait"} /\ ~InSeq(mwq, c)
Owners == {p \in Procs : Holding(p)} \cup {c \in Coros : HandedOff(c)}
Grants == IF mlock = 2 THEN 1 ELSE 0

\* C1: at most one coroutine or thread owns the mutex in every reachable
\* state, the hand-off states included (byte 1 kept for a coroutine
\* waiter, byte 2 for a thread waiter); the byte is 0 exactly when nobody
\* owns it; the counter incremented under the lock loses no update
C1_MutualExclusion ==
    /\ Cardinality(Owners) + Grants <= 1
    /\ (mlock = 0) <=> (Cardinality(Owners) + Grants = 0)
    /\ counter = incs

\* a holder is in its critical section after two earlier increments while
\* a coroutine and a thread wait in the queue
C1_Witness ==
    /\ \E p \in Procs : pc[p] = "cs_w"
    /\ incs >= 2
    /\ \E i, j \in 1..Len(mwq) : mwq[i] = None /\ mwq[j] # None

WaiterAcquires(p) == pc[p] \in {"m_wait", "m_cv"} /\ pc'[p] = "cs_r"
FastAcquires(p) == pc[p] = "idle" /\ pc'[p] = "cs_r"
CoWaiters(q) == SelectSeq(q, LAMBDA x : x \in Coros)

\* C2: every waiter, coroutine or thread, acquires in the order
\* of enqueueing, and nobody acquires on the fast path while a waiter is
\* queued
C2_FifoAllWaiters ==
    [][/\ \A p \in Procs : WaiterAcquires(p) => p = Head(enq)
       /\ \A p \in Procs : FastAcquires(p) => enq = <<>>]_vars

\* what the queue does guarantee: coroutine waiters acquire in the order of
\* enqueueing; a thread waiter acquires only on a grant made for the thread
\* entry at the head of the queue (any blocked thread may take it); nobody
\* acquires on the fast path while a waiter is queued
C2_FifoCoroutines ==
    [][/\ \A c \in Coros : WaiterAcquires(c) => c = Head(CoWaiters(enq))
       /\ \A t \in Threads : WaiterAcquires(t) => Head(enq) \in Threads
       /\ \A p \in Procs : FastAcquires(p) => enq = <<>>]_vars

\* the first of two queued coroutines has been handed the lock while the
\* second is still in the queue
C2_Witness ==
    \E c, d \in Coros :
        /\ c # d
        /\ HandedOff(c)
        /\ InSeq(mwq, d)
        /\ CoWaiters(enq) = <<c, d>>

\* ------------------------------------------------------------------------
\* The event: coroutines and threads wait (without blocking, with a
\* deadline, for ever), signal and reset
\* ------------------------------------------------------------------------
InitE ==
    /\ ops = EventOps
    /\ InitSched
    /\ InitMutex
    /\ \E m, sg \in BOOLEAN : InitEvent(m, sg, 0)
    /\ InitChan(1, "inf")
    /\ InitPlace
    /\ InitOther

NextE ==
    \/ \E s \in Scheds : SchedWake(s)
    \/ \E s \in Scheds : SchedResume(s)
    \/ \E s \in Scheds : SchedCheckTimeout(s)
    \/ \E s \in Scheds : SchedEndIter(s)
    \/ \E c \in Coros : CoEnd(c)
    \/ \E c \in Coros, ms \in MsArgs : EventWaitCo(c, ms)
    \/ \E c \in Coros : EventWaitArm(c)
    \/ \E c \in Coros : EventWaitBack(c)
    \/ \E t \in Threads, ms \in MsArgs : EventWaitTh(t, ms)
    \/ \E t \in Threads : EventCvNotified(t)
    \/ \E t \in Threads : EventCvSpurious(t)
    \/ \E t \in Threads : EventCvTimeout(t)
    \/ \E p \in Procs : EventSignal(p)
    \/ \E p \in Procs : SignalNext(p)
    \/ \E p \in Procs : EventReset(p)

SpecEvent == InitE /\ [][NextE]_vars

\* the coroutines scheduler s is about to resume
Queued(s) == readyq[s] \o batch[s]

\* C3: a coroutine is queued for resumption only while it is suspended (or
\* about to yield) in the wait() whose Waitx CAS was won, by signal() or by
\* the timer but not by both: it is queued at most once, and never while
\* it is running other code, waiting for something else or terminated
C3_SingleWinner ==
    \A s \in Scheds : \A i \in 1..Len(Queued(s)) :
        LET c == Queued(s)[i] IN
          \/ cst[c] = "new"
          \/ /\ pc[c] \in {"e_arm", "e_wait"}
             /\ Count(Queued(s), c) = 1

C5_SignalWakesWaiters ==
    [][\A p \in Procs : \A s \in Scheds :
         ((EventSignal(p) \/ SignalNext(p)) /\ readyq'[s] # readyq[s])
           => LET c == readyq'[s][Len(readyq'[s])] IN
                /\ pc[c] \in {"e_arm", "e_wait"}
                /\ waitx[c] # 0
                /\ wrec[waitx[c]].state = "wait"
                /\ wrec'[waitx[c]].state = "ready"
                /\ ~InSeq(readyq[s] \o batch[s], c)]_vars

\* C6: signal() that finds no thread waiter and no coroutine record in
\* state wait latches signaled; the latch is cleared only by reset() or by
\* a wait() on an auto-reset event; a wait(ms) that finds the latch set
\* returns true at once for every ms and clears it on an auto-reset
\* event; wait(0) on an event that is not signaled returns false
C6_EventLatch ==
    [][/\ \A p \in Procs :
            (EventSignal(p) /\ wt = 0
                /\ \A i \in 1..Len(wc) : wrec[wc[i]].state # "wait")
              => signaled'
       /\ (signaled /\ ~signaled')
            => \E p \in Procs :
                 \/ EventReset(p)
                 \/ ~manual /\ \E ms \in MsArgs :
                                 EventWaitCo(p, ms) \/ EventWaitTh(p, ms)
       /\ \A p \in Procs : \A ms \in MsArgs :
            (EventWaitCo(p, ms) \/ EventWaitTh(p, ms))
              => IF signaled
                 THEN /\ ret'[p] = "true"
                      /\ pc'[p] = "idle"
                      /\ signaled' = manual
                 ELSE ms = "zero" => ret'[p] = "false" /\ pc'[p] = "idle"]_vars

\* signal() has latched an auto-reset event after it found only the record
\* of a coroutine whose wait had timed out, and a wait can still be issued
C6_Witness ==
    /\ ~manual
    /\ signaled
    /\ ops > 0
    /\ \E w \in Wids : ~wrec[w].alloc /\ wrec[w].state = "timeout"
    /\ \E c \in Coros : ret[c] = "false"

\* ------------------------------------------------------------------------
\* The wait group: coroutines and threads add, done and wait
\* ------------------------------------------------------------------------
GroupInit == 0..2
AddArgs == {1, AllOnes}

InitG ==
    /\ ops = GroupOps
    /\ InitSched
    /\ InitMutex
    /\ \E n \in GroupInit : InitEvent(FALSE, FALSE, n)
    /\ InitChan(1, "inf")
    /\ InitPlace
    /\ InitOther

NextG ==
    \/ \E s \in Scheds : SchedWake(s)
    \/ \E s \in Scheds : SchedResume(s)
    \/ \E s \in Scheds : SchedCheckTimeout(s)
    \/ \E c \in Coros : CoEnd(c)
    \/ \E p \in Procs, n \in AddArgs : WgAdd(p, n)
    \/ \E p \in Procs : WgDone(p)
    \/ \E p \in Procs : WgSignal(p)
    \/ \E p \in Procs : SignalNext(p)
    \/ \E p \in Procs : WgWait(p)
    \/ \E c \in Coros : EventWaitArm(c)
    \/ \E c \in Coros : EventWaitBack(c)
    \/ \E t \in Threads : EventCvNotified(t)
    \/ \E t \in Threads : EventCvSpurious(t)

SpecGroup == InitG /\ [][NextG]_vars

\* the variables a step of a scheduler loop or of a call in progress always
\* changes: the position of the process, the coroutine life cycle, the
\* loop's phase and batch, the running coroutine, the list signal() walks
fairVars == <<pc, cst, phase, batch, running, hl>>

\* the scheduler threads keep running, a running coroutine goes on to the
\* end of its call and of its closure, a signal() in progress completes and
\* a notified thread wakes up; nothing forces a new call or a spurious
\* wake-up
FairG ==
    /\ \A s \in Scheds : WF_fairVars(SchedWake(s) \/ SchedResume(s) \/ SchedCheckTimeout(s))
    /\ \A c \in Coros : WF_fairVars(CoEnd(c) \/ EventWaitArm(c) \/ EventWaitBack(c))
    /\ \A p \in Procs : WF_fairVars(WgSignal(p) \/ SignalNext(p))
    /\ \A t \in Threads : WF_fairVars(EventCvNotified(t))

FairSpecGroup == SpecGroup /\ FairG

\* every step the fairness condition is about changes fairVars, so that
\* WF_fairVars and WF_vars are the same condition on these actions
FairStepsVisible ==
    [][/\ \A s \in Scheds :
            (SchedWake(s) \/ SchedResume(s) \/ SchedCheckTimeout(s))
              => fairVars' # fairVars
       /\ \A c \in Coros :
            (CoEnd(c) \/ EventWaitArm(c) \/ EventWaitBack(c))
              => fairVars' # fairVars
       /\ \A p \in Procs :
            (WgSignal(p) \/ SignalNext(p)) => fairVars' # fairVars
       /\ \A t \in Threads :
            EventCvNotified(t) => fairVars' # fairVars]_vars

\* the step is a wait() of p returning true
ReturnsTrue(p) ==
    /\ pc[p] \in {"idle", "e_back", "e_cv"}
    /\ pc'[p] = "idle"
    /\ ret'[p] = "true"
    /\ ret[p] # "true" \/ pc[p] # "idle"

\* C7: wait() returns only after the counter has reached zero at least once;
\* with n > 0 and no add(), no wait() returns while fewer than n done()
\* calls have decremented the counter
C7_WaitAfterZero ==
    \A p \in Procs :
        (pc[p] = "idle" /\ ret[p] = "true") =>
            /\ zeroSeen
            /\ (wg0 > 0 /\ sumAdd = 0) => doneCnt >= wg0

\* the done() that brings the counter to 0, and no other, goes on to call
\* signal(), once
SignalPerZero ==
    [][\A p \in Procs :
          /\ WgDone(p) => ((pc'[p] = "sig1") <=> (wg' = 0))
          /\ (pc[p] # "sig1" /\ pc'[p] = "sig1") => WgDone(p)
          /\ (pc[p] = "sig1" /\ pc'[p] # "sig1") => WgSignal(p)]_vars

C9_WaitReturnsAtZero ==
    \A p \in Procs :
        (Blocked(p) /\ wg = 0 /\ sumAdd = 0)
            ~> (~Blocked(p) \/ wg # 0 \/ crashed \/ ops = 0)

\* a done() issued when the counter is 0 ends in the fatal CHECK and does
\* not call signal()
DoneAtZeroFatal ==
    [][\A p \in Procs :
          (WgDone(p) /\ wg = 0) => (crashed' /\ pc'[p] = "fatal" /\ UNCHANGED eventVars)]_vars

\* no step is taken after the fatal CHECK
FatalStops == [][~crashed]_vars

\* C10 as stated: while the program runs the counter equals
\* n + sum of add - number of done, never a wrapped value
C10_NeverWrapped ==
    ~crashed => wg = wg0 + sumAdd - doneCnt

\* C10: a done() at 0 is fatal and does not signal; while the program runs
\* the counter equals n + sum of add - number of done modulo 2^width, and
\* equals it exactly as long as n + sum of add fits the width: add() is
\* unchecked and wraps silently past it
C10_NoUnderflow ==
    /\ DoneAtZeroFatal
    /\ FatalStops
    /\ [](~crashed =>
            /\ wg = (wg0 + sumAdd - doneCnt) % WgMod
            /\ (wg0 + sumAdd < WgMod) => wg = wg0 + sumAdd - doneCnt)

C10_Witness ==
    /\ crashed
    /\ wg = AllOnes
    /\ \E p \in Procs : pc[p] = "fatal"
    /\ wg0 + sumAdd - doneCnt = -1

\* ------------------------------------------------------------------------
\* A channel shared by the coroutines of both schedulers and by threads:
\* every capacity up to MaxCap, with and without a timeout
\* ------------------------------------------------------------------------
MsKinds == {"fin", "inf"}

\* the processes that use the channel
ChanProcs == {"a", "c", "t"}

InitC ==
    /\ ops = ChanOps
    /\ InitSched
    /\ InitMutex
    /\ InitEvent(FALSE, FALSE, 0)
    /\ \E k \in 1..MaxCap, ms \in MsKinds : InitChan(k, ms)
    /\ InitPlace
    /\ InitOther

NextC ==
    \/ \E s \in Scheds : SchedWake(s)
    \/ \E s \in Scheds : SchedResume(s)
    \/ \E s \in Scheds : SchedCheckTimeout(s)
    \/ \E s \in Scheds : SchedEndIter(s)
    \/ \E c \in Coros : CoEnd(c)
    \/ \E p \in ChanProcs : ChanRead(p)
    \/ \E p \in ChanProcs : ChanWrite(p)
    \/ \E c \in Coros \cap ChanProcs : ChanArm(c)
    \/ \E c \in Coros \cap ChanProcs : ChanReadBack(c)
    \/ \E c \in Coros \cap ChanProcs : ChanWriteBack(c)
    \/ \E t \in Threads \cap ChanProcs : ChanCvWake(t)
    \/ \E t \in Threads \cap ChanProcs : ChanCvTimeout(t)
    \/ \E p \in ChanProcs : ChanClose(p)
    \/ \E p \in ChanProcs : ChanCloseLock(p)
    \/ \E p \in ChanProcs : ChanCloseSpin(p)

SpecChan == InitC /\ [][NextC]_vars

\* the elements in the ring buffer, oldest first
RingSeq == [i \in 1..RingCount |-> ring[(rx + i - 1) % cap]]

\* the records in _wq of writers whose timer has fired: their write()
\* reports done = false and their element is dropped
Tombs == {w \in Wids : InSeq(cwq, w) /\ wrec[w].state = "timeout" /\ wval[w] # 0}

\* the elements committed by write(), in the order of commitment
Committed == ForgetAll(wlog, {wval[w] : w \in Tombs})

\* the elements of the writers blocked in _wq, in queue order
RECURSIVE PendingVals(_)
PendingVals(q) ==
    IF q = <<>> THEN <<>>
    ELSE IF wval[Head(q)] # 0 /\ Head(q) \notin Tombs
    THEN <<wval[Head(q)]>> \o PendingVals(Tail(q))
    ELSE PendingVals(Tail(q))

\* C11: the elements taken by the successful read() calls, in the order
\* they were taken, are the elements committed by write() in the order of
\* commitment: what was read, then the ring buffer, then the blocked
\* writers, is the committed sequence
C11_Fifo == rlog \o RingSeq \o PendingVals(cwq) = Committed

\* two elements have been read in order, the second one after it passed
\* through the record of a blocked writer that has returned done = true
C11_Witness ==
    /\ rlog = <<1, 2>>
    /\ \E p \in ChanProcs : /\ pc[p] = "idle" /\ ret[p] = "true"
                             /\ got[p] = 0
                             /\ lw[p] # 0 /\ wval[lw[p]] = 2

\* the record lw[p] is the one process p created and nobody has freed
Owns(p) ==
    /\ wrec[lw[p]].alloc
    /\ wrec[lw[p]].co = (IF p \in Coros THEN p ELSE None)

\* the elements handed directly to a blocked reader that has not returned
HandedPending ==
    {p \in ChanProcs : /\ pc[p] \in {"r_arm", "r_wait", "r_back", "r_cv"}
                       /\ Owns(p)
                       /\ wdone[lw[p]] = 1}

\* the blocked writers whose element a reader has moved into the ring
\* buffer and whose write() has not returned
MovedPending ==
    {p \in ChanProcs : /\ pc[p] \in {"w_arm", "w_wait", "w_back", "w_cv"}
                       /\ Owns(p)
                       /\ wdone[lw[p]] = 1}

NoDup(q) == \A i, j \in 1..Len(q) : q[i] = q[j] => i = j

\* every element is taken at most once, what a successful read returned is
\* an element that was taken, and what was taken was written
OneToOne ==
    /\ NoDup(rlog)
    /\ NoDup(wlog)
    /\ \A i \in 1..Len(rlog) : InSeq(wlog, rlog[i])
    /\ \A p \in ChanProcs : got[p] # 0 => InSeq(rlog, got[p])
    /\ \A p, q \in ChanProcs : got[p] # 0 /\ got[p] = got[q] => p = q
    /\ nrd + Cardinality(HandedPending) = Len(rlog)

\* C12 as stated: ring buffer plus elements handed to readers that have not
\* returned is successful writes minus successful reads
C12_Conservation ==
    RingCount + Cardinality(HandedPending) = nw - nrd

\* C12: the balance also counts the writers whose element is already in the
\* ring buffer while their write() has not returned yet
C12_ConservationInFlight ==
    /\ OneToOne
    /\ RingCount + Cardinality(HandedPending) =
           nw + Cardinality(MovedPending) - nrd

\* a reader has been handed an element and has not returned while another
\* element is in the ring buffer on behalf of a writer that has not returned
C12_Witness ==
    /\ MovedPending # {}
    /\ RingCount > 0
    /\ nrd > 0

\* C13: a write() on a channel whose closed state is not 0 reports
\* done = false and moves nothing: indexes, _full, buffer, wait queue and
\* records are unchanged and nobody is woken
C13_WriteOnClosed ==
    [][\A p \in ChanProcs :
          ChanWrite(p) /\ closed # 0 =>
              /\ ret'[p] = "false"
              /\ pc'[p] = "idle"
              /\ UNCHANGED <<rx, wx, full, ring, cwq, wrec, wdone, wval,
                             readyq, notified, wlog, rlog, nw>>]_vars

\* a write() was refused while the channel was closing (state 1) with an
\* element in the ring buffer
C13_Witness ==
    /\ cms = "inf"
    /\ closed = 1
    /\ nextv - 1 > Len(wlog)
    /\ RingCount > 0

\* C14: a read() on a channel that is closing or closed returns without
\* blocking: with done = true and the oldest element while the ring buffer
\* holds one, with done = false and nothing moved once it is empty
C14_DrainClosed ==
    [][\A p \in ChanProcs :
          ChanRead(p) /\ closed # 0 =>
              /\ pc'[p] = "idle"
              /\ RingCount > 0 =>
                    /\ ret'[p] = "true"
                    /\ got'[p] = Head(RingSeq)
                    /\ rlog' = Append(rlog, Head(RingSeq))
              /\ RingCount = 0 =>
                    /\ ret'[p] = "false"
                    /\ UNCHANGED <<rx, wx, full, ring, cwq, wrec, got, rlog>>]_vars

\* after close() stored 2 an element written before was read, and a later
\* read() of a process that never blocked found the channel empty and
\* returned done = false
C14_Witness ==
    /\ closed = 2
    /\ cms = "inf"
    /\ Len(rlog) > rclosed
    /\ nrd = Len(rlog)
    /\ RingCount = 0
    /\ nextv - 1 = Len(wlog)
    /\ \E q \in ChanProcs : pc[q] = "idle" /\ ret[q] = "false" /\ lw[q] = 0

\* a reader blocked in read(): its record is in _wq and still in state wait
BlockedReader(p) ==
    /\ pc[p] \in {"r_arm", "r_wait", "r_cv"}
    /\ InSeq(cwq, lw[p])
    /\ Owns(p)
    /\ wrec[lw[p]].state = "wait"

\* the number of pending resumptions of coroutine c
Wakes(c) == Count(readyq[SchedOf(c)], c) + Count(batch[SchedOf(c)], c)

\* C15: the locked section of close() takes every blocked reader out of
\* _wq, marks its record ready with x.done = 2 and wakes it once; a woken
\* reader returns done = false without an element; once _closed is 2 no
\* reader is blocked and no reader record is left in _wq
C15_CloseWakesReaders ==
    /\ [](closed = 2 => /\ \A p \in ChanProcs : ~BlockedReader(p)
                        /\ \A i \in 1..Len(cwq) : wval[cwq[i]] # 0)
    /\ [](\A c \in Coros : Wakes(c) <= 1)
    /\ [][\A p \in ChanProcs :
            /\ (BlockedReader(p) /\ closed = 1 /\ closed' = 2) =>
                  /\ wrec'[lw[p]].state = "ready"
                  /\ wdone'[lw[p]] = 2
                  /\ ~InSeq(cwq', lw[p])
                  /\ p \in Coros => Wakes(p)' = 1
            /\ (pc[p] \in {"r_back", "r_cv"} /\ Owns(p) /\ wdone[lw[p]] = 2
                  /\ pc'[p] = "idle") =>
                  /\ ret'[p] = "false"
                  /\ got'[p] = got[p]
                  /\ ~wrec'[lw[p]].alloc]_vars

\* close() has returned after it woke a coroutine and a thread that were
\* blocked in read(), and both have returned done = false
C15_Witness ==
    /\ closed = 2
    /\ rclosed = 0
    /\ nextv = 1
    /\ \E c \in Coros \cap ChanProcs, t \in Threads \cap ChanProcs :
          /\ lw[c] # 0 /\ lw[t] # 0 /\ lw[c] # lw[t]
          /\ pc[c] = "idle" /\ ret[c] = "false" /\ wdone[lw[c]] = 2
          /\ pc[t] = "idle" /\ ret[t] = "false" /\ wdone[lw[t]] = 2

\* the callers of close() inside the locked section
Closers == {p \in ChanProcs : pc[p] = "cl_lock"}

\* the callers of close() that lost the CAS and wait for state 2
Spinners == {p \in ChanProcs : pc[p] \in {"cl_spin", "cl_sleep"}}

\* C16: _closed only moves 0 -> 1 -> 2; while it is 1 exactly one caller
\* is in the locked section, and it is the one that wakes the readers
\* (x.done = 2) and stores 2; a caller that lost the CAS returns only when
\* the state is 2
C16_ConcurrentClose ==
    /\ [][closed' # closed =>
            \/ closed = 0 /\ closed' = 1
            \/ closed = 1 /\ closed' = 2 /\ \E p \in Closers : pc'[p] = "idle"]_vars
    /\ [](Cardinality(Closers) = (IF closed = 1 THEN 1 ELSE 0))
    /\ [](Spinners # {} => closed # 0)
    /\ [][\A p \in ChanProcs :
            /\ (p \in Spinners /\ pc'[p] = "idle") => closed = 2
            /\ (ChanClose(p) /\ closed # 0 /\ pc'[p] = "idle") => closed = 2
            /\ (\E w \in Wids : wdone'[w] = 2 /\ wdone[w] # 2) =>
                  closed = 1 /\ closed' = 2]_vars

\* three callers closed concurrently: the winner has stored 2 and a
\* coroutine and a thread that lost the CAS have not returned yet
C16_Witness ==
    /\ closed = 2
    /\ \E c \in Coros \cap ChanProcs : pc[c] \in {"cl_spin", "cl_sleep"}
    /\ \E t \in Threads \cap ChanProcs : pc[t] = "cl_spin"

\* the records of timed-out readers that are still in _wq
ReaderTombs == {w \in Wids : InSeq(cwq, w) /\ wrec[w].state = "timeout" /\ wval[w] = 0}

\* the records in _wq in front of record w
Ahead(w) == {cwq[j] : j \in {i \in 1..Len(cwq) : \A k \in 1..i : cwq[k] # w}}

\* C17: when the timer wins the CAS on the record of a coroutine blocked
\* in read(), the coroutine is resumed with _timeout set, its read()
\* reports done = false and takes nothing; a later write() that reaches
\* the timed-out record (no live reader is in front of it) frees it
\* without handing it the element, which goes to the ring buffer or to a
\* reader that has not timed out
C17_ReadTimeout ==
    /\ [](\A w \in ReaderTombs : wdone[w] = 0)
    /\ [][\A c \in Coros \cap ChanProcs :
            /\ (pc[c] = "r_wait" /\ wrec[lw[c]].state = "wait"
                  /\ wrec'[lw[c]].state = "timeout" /\ wrec'[lw[c]].alloc) =>
                  /\ InSeq(batch'[SchedOf(c)], c)
                  /\ tmo'[SchedOf(c)]
                  /\ UNCHANGED <<rx, wx, full, ring, cwq, wdone, rlog>>
            /\ (pc[c] = "r_back" /\ tmo[SchedOf(c)] /\ pc'[c] = "idle") =>
                  /\ ret'[c] = "false"
                  /\ UNCHANGED <<got, rx, wx, full, ring, cwq, wdone, rlog, nrd>>]_vars
    /\ [][\A p \in ChanProcs :
            (ChanWrite(p) /\ ReaderTombs # {} /\ closed = 0) =>
                  /\ \A w \in ReaderTombs :
                        /\ wdone'[w] = 0
                        /\ IF Ahead(w) \subseteq ReaderTombs
                           THEN ~InSeq(cwq', w) /\ ~wrec'[w].alloc
                           ELSE InSeq(cwq', w) /\ wrec'[w] = wrec[w]
                  /\ ret'[p] = "true"
                  /\ \/ RingSeq' = <<nextv>>
                     \/ \E w \in Wids \ ReaderTombs :
                           /\ InSeq(cwq, w) /\ wdone'[w] = 1
                           /\ wval'[w] = nextv]_vars

\* a coroutine timed out in read() on an open channel and returned
\* done = false; a later write() has freed its record and put its element
\* in the ring buffer
C17_Witness ==
    /\ cms = "fin"
    /\ closed = 0
    /\ RingCount = 1
    /\ nw = 1
    /\ rlog = <<>>
    /\ \E c \in Coros \cap ChanProcs :
          /\ pc[c] = "idle" /\ ret[c] = "false" /\ got[c] = 0
          /\ lw[c] # 0 /\ ~wrec[lw[c]].alloc /\ wdone[lw[c]] = 0

\* the elements of the write() calls that are blocked and have not returned
InFlight == {arg[p] : p \in ChanProcs} \ {0}

\* the elements of the write() calls that returned done = true
Succeeded == (1..(nextv - 1)) \ (failed \cup InFlight)

\* C18: the element of a write() that returned done = true is exactly once
\* in the ring buffer or among the elements taken by readers; the element
\* of a write() that returned done = false is in neither, nor with a
\* blocked writer that can still deliver it; the number of done = true
\* returns is the number of such elements
C18_WriterDoneExact ==
    /\ \A v \in Succeeded : Count(rlog \o RingSeq, v) = 1
    /\ \A v \in failed : ~InSeq(rlog \o RingSeq \o PendingVals(cwq), v)
    /\ \A p \in ChanProcs : got[p] \notin failed
    /\ nw = Cardinality(Succeeded)

\* a blocked writer timed out and returned done = false, its record was
\* discarded by the read() that took the element written before it, and a
\* later write() succeeded
C18_Witness ==
    /\ failed = {2}
    /\ closed = 0
    /\ rlog = <<1>>
    /\ RingSeq = <<3>>
    /\ nw = 2

\* ------------------------------------------------------------------------
\* Coroutines of both schedulers and threads yield, resume one another and
\* start new coroutines concurrently
\* ------------------------------------------------------------------------
InitS ==
    /\ ops = SchedOps
    /\ InitSched
    /\ InitMutex
    /\ InitEvent(FALSE, FALSE, 0)
    /\ InitChan(1, "inf")
    /\ InitPlace
    /\ InitOther

NextS ==
    \/ \E s \in Scheds : SchedWake(s)
    \/ \E s \in Scheds : SchedResume(s)
    \/ \E s \in Scheds : SchedCheckTimeout(s)
    \/ \E c \in Coros : CoEnd(c)
    \/ \E c \in Coros : CoYield(c)
    \/ \E p \in Procs, c \in Coros : CoResume(p, c)
    \/ \E p \in Procs : GoCheck(p)
    \/ \E p \in Procs : GoInc(p)
    \/ \E p \in Procs : GoRand(p)
    \/ \E p \in Procs : GoPick(p)
    \/ \E p \in Procs : GoAdd(p)

SpecSched == InitS /\ [][NextS]_vars

\* C19: co::resume only appends the coroutine to the ready mailbox of the
\* scheduler that owns it and runs nothing on the calling thread; every
\* queue of a scheduler holds only its own coroutines and a coroutine runs
\* only on the thread of its own scheduler
C19_ResumeOnOwner ==
    /\ [](\A s \in Scheds :
            /\ running[s] # None => SchedOf(running[s]) = s
            /\ \A c \in Coros :
                  (InSeq(readyq[s], c) \/ InSeq(batch[s], c) \/ InSeq(newq[s], c))
                      => SchedOf(c) = s)
    /\ [](\A c \in Coros : cst[c] = "run" => running[SchedOf(c)] = c)
    /\ [][\A p \in Procs, c \in Coros :
            CoResume(p, c) =>
                /\ readyq'[SchedOf(c)] = Append(readyq[SchedOf(c)], c)
                /\ \A s \in Scheds \ {SchedOf(c)} : readyq'[s] = readyq[s]
                /\ UNCHANGED <<pc, cst, running, batch, newq>>]_vars

\* a coroutine running on scheduler s0 has resumed the suspended coroutine
\* of scheduler s1: it is in the mailbox of s1 and the caller still runs
C19_Witness ==
    /\ pc["c"] = "y_wait"
    /\ cst["c"] = "susp"
    /\ InSeq(readyq["s1"], "c")
    /\ running["s0"] = "a"
    /\ ops = SchedOps - 2

\* C20: every placement is an index in 0..N-1 and the first N placements,
\* in the order the calls obtained them, are 0, 1, .., N-1
C20_WarmUp ==
    /\ \A j \in 1..Len(placed) : placed[j] \in 0..(NSched - 1)
    /\ \A j \in 1..Len(placed) : j <= NSched => placed[j] = j - 1
    /\ \A p \in Procs : pc[p] = "ns_add" => gi[p] \in 0..(NSched - 1)

\* three calls raced through the test g_nco < v.size(): two got the
\* indexes 0 and 1, the third incremented g_nco to 3 and took the random
\* path; all of them have added their closure
C20_Witness ==
    /\ nco = 3
    /\ Len(placed) = 3
    /\ nnew["s0"] + nnew["s1"] = 3

\* ------------------------------------------------------------------------
\* Placement by threads while the schedulers publish their cpu time
\* ------------------------------------------------------------------------
InitP ==
    /\ ops = PlaceOps
    /\ InitSched
    /\ InitMutex
    /\ InitEvent(FALSE, FALSE, 0)
    /\ InitChan(1, "inf")
    /\ InitPlace
    /\ InitOther

NextP ==
    \/ \E i \in 0..(NSched - 1) : SchedPublish(i)
    \/ \E t \in Threads : GoCheck(t)
    \/ \E t \in Threads : GoInc(t)
    \/ \E t \in Threads : GoRand(t)
    \/ \E t \in Threads : GoPick(t)
    \/ \E t \in Threads : GoAdd(t)

SpecPlace == InitP /\ [][NextP]_vars

\* C21: after the warm-up next_sched returns the first choice i if the
\* cpu time of i is not above the caller's last sample of the cpu time of
\* k = (i+1) mod N, and otherwise returns k and sets the sample to the
\* current cpu time of k
C21_TwoChoice ==
    [][\A t \in Threads :
          GoPick(t) =>
              LET i == gi[t]
                  k == Alt(i)
              IN IF cput[i] <= samp[t][k]
                 THEN gi'[t] = i /\ samp' = samp
                 ELSE gi'[t] = k /\ samp'[t][k] = cput[k]]_vars

\* what the expression does: i is returned when the cpu time of k has not
\* moved since the caller's last sample, or when the cpu time of i is not
\* above the current cpu time of k; the sample is refreshed whenever it
\* differs, whichever scheduler is returned
C21_TwoChoiceFresh ==
    [][\A t \in Threads :
          GoPick(t) =>
              LET i == gi[t]
                  k == Alt(i)
              IN /\ gi'[t] = (IF samp[t][k] = cput[k] \/ cput[i] <= cput[k]
                              THEN i ELSE k)
                 /\ samp'[t][k] = cput[k]
                 /\ \A j \in 0..(NSched - 1) \ {k} : samp'[t][j] = samp[t][j]]_vars


\* ------------------------------------------------------------------------
\* Stopping a scheduler (sched.cc 64-80 Sched::stop, 165-273 Sched::loop)

StopOps == 4

\* Sched::stop, line 65: the exchange tells the caller whether _stopped
\* was still false
StopWins(old) == ~old

\* Sched::stop up to the call of _ev.wait(): the flag is set; only the
\* caller that found it false signals the poller and goes on to wait
SchedStop(t, s) ==
    /\ t \in Threads
    /\ CanCall(t)
    /\ ops' = ops - 1
    /\ stopped' = [stopped EXCEPT ![s] = TRUE]
    /\ IF StopWins(stopped[s])
       THEN /\ nstop' = [nstop EXCEPT ![s] = @ + 1]
            /\ starg' = [starg EXCEPT ![t] = s]
            /\ pc' = [pc EXCEPT ![t] = "st_ev"]
       ELSE UNCHANGED <<nstop, starg, pc>>
    /\ UNCHANGED <<cst, schedVars, crashed, mutexVars, eventVars, wgVars,
                   chanVars, placeVars, rclosed, arg, failed, evsig, evwt,
                   poolVars, ext>>

\* sync_event_impl::wait() on _ev: a latched signal is consumed, otherwise
\* the caller is counted in _wt and blocks on the condition variable
StopEvWait(t) ==
    /\ t \in Threads
    /\ AtStep(t, "st_ev")
    /\ LET s == starg[t] IN
         IF evsig[s]
         THEN /\ evsig' = [evsig EXCEPT ![s] = FALSE]
              /\ pc' = [pc EXCEPT ![t] = "idle"]
              /\ UNCHANGED <<evwt, notified>>
         ELSE /\ evwt' = [evwt EXCEPT ![s] = @ + 1]
              /\ notified' = notified \ {t}
              /\ pc' = [pc EXCEPT ![t] = "st_cv"]
              /\ UNCHANGED evsig
    /\ UNCHANGED <<ops, cst, schedVars, crashed, mutexVars, signaled, manual,
                   wc, wt, sn, wrec, waitx, hl, lsn, lms, ret, wgVars,
                   chanVars, placeVars, rclosed, arg, failed, stopped, nstop,
                   starg, poolVars, ext>>

\* _cv.wait(g) returns after the notify_all of signal()
StopCvWake(t) ==
    /\ t \in Threads
    /\ AtStep(t, "st_cv")
    /\ t \in notified
    /\ notified' = notified \ {t}
    /\ pc' = [pc EXCEPT ![t] = "idle"]
    /\ UNCHANGED <<ops, cst, schedVars, crashed, mutexVars, signaled, manual,
                   wc, wt, sn, wrec, waitx, hl, lsn, lms, ret, wgVars,
                   chanVars, placeVars, rclosed, arg, failed, otherVars>>

\* _cv.wait(g) has no predicate: a spurious wake-up of the condition
\* variable ends wait() as well
StopCvSpurious(t) ==
    /\ t \in Threads
    /\ AtStep(t, "st_cv")
    /\ t \notin notified
    /\ pc' = [pc EXCEPT ![t] = "idle"]
    /\ UNCHANGED <<ops, cst, schedVars, crashed, mutexVars, eventVars, wgVars,
                   chanVars, placeVars, rclosed, arg, failed, otherVars>>

\* Sched::loop, lines 172-174: the loop goes into an iteration only while
\* _stopped is false, at the top and after the poller returned
LoopWake(s) ==
    /\ ~stopped[s]
    /\ SchedWake(s)

\* Sched::loop, lines 172-174 and 272: the loop sees the flag, leaves and
\* signals _ev (sync_event_impl::signal)
LoopExit(s) ==
    /\ ~crashed
    /\ phase[s] = "idle"
    /\ stopped[s]
    /\ phase' = [phase EXCEPT ![s] = "exit"]
    /\ IF evwt[s] > 0
       THEN /\ evwt' = [evwt EXCEPT ![s] = 0]
            /\ notified' = notified \cup
                             {t \in Threads : pc[t] = "st_cv" /\ starg[t] = s}
            /\ UNCHANGED evsig
       ELSE /\ evsig' = [evsig EXCEPT ![s] = TRUE]
            /\ UNCHANGED <<evwt, notified>>
    /\ UNCHANGED <<procVars, newq, readyq, batch, running, tmo, timer, it,
                   crashed, mutexVars, signaled, manual, wc, wt, sn, wrec,
                   waitx, hl, lsn, lms, ret, wgVars, chanVars, placeVars,
                   rclosed, arg, failed, stopped, nstop, starg, poolVars,
                   ext>>

InitT ==
    /\ ops = StopOps
    /\ InitSched
    /\ InitMutex
    /\ InitEvent(FALSE, FALSE, 0)
    /\ InitChan(1, "inf")
    /\ InitPlace
    /\ InitOther

NextT ==
    \/ \E s \in Scheds : LoopWake(s)
    \/ \E s \in Scheds : SchedResume(s)
    \/ \E s \in Scheds : SchedCheckTimeout(s)
    \/ \E s \in Scheds : LoopExit(s)
    \/ \E c \in Coros : CoEnd(c)
    \/ \E c \in Coros : CoYield(c)
    \/ \E p \in Procs, c \in Coros : CoResume(p, c)
    \/ \E t \in Threads, s \in Scheds : SchedStop(t, s)
    \/ \E t \in Threads : StopEvWait(t)
    \/ \E t \in Threads : StopCvWake(t)
    \/ \E t \in Threads : StopCvSpurious(t)

SpecStop == InitT /\ [][NextT]_vars

\* a stop() that won the exchange returns only when the loop has exited
StopWaitsForExit ==
    [][\A t \in Threads :
         (pc[t] \in {"st_ev", "st_cv"} /\ pc'[t] = "idle")
           => phase'[starg[t]] = "exit"]_vars

\* a loop that is between iterations with the flag set, or has exited,
\* resumes no coroutine; an exited loop stays exited
NoResumeAfterStop ==
    [][/\ \A c \in Coros :
            (stopped[SchedOf(c)] /\ phase[SchedOf(c)] \in {"idle", "exit"})
              => (cst'[c] = "run" => cst[c] = "run")
       /\ \A s \in Scheds :
            phase[s] = "exit"
              => phase'[s] = "exit" /\ batch'[s] = batch[s]]_vars

\* a stop() on a scheduler whose flag is set changes nothing and returns
LaterStopNoOp ==
    [][\A t \in Threads, s \in Scheds :
         (stopped[s] /\ SchedStop(t, s))
           => /\ pc' = pc
              /\ UNCHANGED <<cst, schedVars, stopVars>>]_vars

\* every scheduler is stopped at most once, and the flag is set exactly
\* when it was
StoppedOnce ==
    [](\A s \in Scheds : nstop[s] <= 1 /\ (stopped[s] <=> nstop[s] = 1))

\* C22: the first stop() of a scheduler sets the flag and returns only
\* after the loop of that scheduler has exited; the loop, once it wakes
\* with the flag set, resumes no further coroutine; every later stop()
\* does nothing, so each scheduler is stopped exactly once.
C22_SchedStop ==
    /\ StopWaitsForExit
    /\ NoResumeAfterStop
    /\ LaterStopNoOp
    /\ StoppedOnce

\* the part of C22 that does not depend on when _ev.wait() returns
C22_StopOnce ==
    /\ NoResumeAfterStop
    /\ LaterStopNoOp
    /\ StoppedOnce


\* ------------------------------------------------------------------------
\* co::pool (co.cc 775-859 pool_impl)

PoolOps == 4
PoolCap == 2
MaxEl == 5

\* the coroutine that runs the closure of clear() on scheduler s, and the
\* coroutines of the program that use the pool
ClearCo(s) == IF s = "s0" THEN "b" ELSE "c"
PoolUsers == {"a"}
PoolVecs ==
    {v \in [Scheds -> {<<>>, <<1>>, <<1, 2>>, <<3>>}] :
        /\ v["s0"] \in {<<>>, <<1>>, <<1, 2>>}
        /\ v["s1"] \in {<<>>, <<3>>}}

\* pool_impl::pop and push: the vector the caller works on
PoolIndex(c) == SchedOf(c)

\* pool_impl::pop: the last element of the caller's vector, else a new
\* element made by _ccb
PoolPop(c) ==
    /\ c \in PoolUsers
    /\ CanCall(c)
    /\ held[c] = 0
    /\ ops' = ops - 1
    /\ LET i == PoolIndex(c)
           v == pools[i]
       IN IF v # <<>>
          THEN /\ held' = [held EXCEPT ![c] = v[Len(v)]]
               /\ pools' = [pools EXCEPT ![i] = SubSeq(v, 1, Len(v) - 1)]
               /\ UNCHANGED nextel
          ELSE /\ nextel <= MaxEl
               /\ held' = [held EXCEPT ![c] = nextel]
               /\ nextel' = nextel + 1
               /\ UNCHANGED pools
    /\ UNCHANGED <<pc, cst, schedVars, crashed, mutexVars, eventVars, wgVars,
                   chanVars, placeVars, rclosed, arg, failed, stopVars, ext, dcb,
                   destroyed, nclr, ran, clearer>>

\* clear() has been called and its caller is still in it
Clearing ==
    /\ clearer # None
    /\ pc[clearer] \in {"pl_go", "e_arm", "e_wait", "e_back", "e_cv"}

\* pool_impl::push: push_back on the caller's vector unless it is at
\* _maxcap and _dcb is set, then _dcb(p); the program pushes no element
\* while a clear() is in progress
PoolPush(c) ==
    /\ c \in PoolUsers
    /\ CanCall(c)
    /\ held[c] # 0
    /\ ~Clearing
    /\ ops' = ops - 1
    /\ LET i == PoolIndex(c)
           v == pools[i]
       IN IF Len(v) < PoolCap \/ ~dcb
          THEN /\ pools' = [pools EXCEPT ![i] = Append(v, held[c])]
               /\ UNCHANGED destroyed
          ELSE /\ destroyed' = destroyed \cup {held[c]}
               /\ UNCHANGED pools
    /\ held' = [held EXCEPT ![c] = 0]
    /\ UNCHANGED <<pc, cst, schedVars, crashed, mutexVars, eventVars, wgVars,
                   chanVars, placeVars, rclosed, arg, failed, stopVars, ext, dcb,
                   nextel, nclr, ran, clearer>>

\* pool_impl::clear with active schedulers, up to wg.wait(): a wait group
\* of scheds.size() and one s->go(closure) for every scheduler
PoolClear(p) ==
    /\ p \in PoolUsers \cup Threads
    /\ CanCall(p)
    /\ clearer = None
    /\ ops' = ops - 1
    /\ wg' = NSched
    /\ wg0' = NSched
    /\ newq' = [s \in Scheds |-> Append(newq[s], ClearCo(s))]
    /\ nclr' = [s \in Scheds |-> nclr[s] + 1]
    /\ clearer' = p
    /\ pc' = [pc EXCEPT ![p] = "pl_go"]
    /\ UNCHANGED <<cst, readyq, batch, phase, running, tmo, timer, it,
                   crashed, mutexVars, eventVars, sumAdd, doneCnt, zeroSeen,
                   atZero, chanVars, placeVars, rclosed, arg, failed,
                   stopVars, ext, pools, dcb, held, nextel, destroyed, ran>>

\* pool_impl::clear: wg.wait(), event_impl::wait((uint32_t)-1) on the
\* event of the new wait group, whose waiter list is empty
PoolClearWait(p) ==
    /\ AtStep(p, "pl_go")
    /\ IF signaled
       THEN /\ signaled' = WaitLatch(signaled, manual)
            /\ ret' = [ret EXCEPT ![p] = "true"]
            /\ pc' = [pc EXCEPT ![p] = "idle"]
            /\ UNCHANGED <<wc, wrec, waitx, wt, lsn, lms, notified>>
       ELSE IF p \in Coros
       THEN /\ \E x \in Malloc :
                 /\ wrec' = [wrec EXCEPT ![x] = MakeWaitx(p)]
                 /\ waitx' = [waitx EXCEPT ![p] = x]
                 /\ wc' = Append(wc, x)
            /\ pc' = [pc EXCEPT ![p] = "e_arm"]
            /\ lms' = [lms EXCEPT ![p] = "inf"]
            /\ ret' = [ret EXCEPT ![p] = "none"]
            /\ UNCHANGED <<signaled, wt, lsn, notified>>
       ELSE /\ lsn' = [lsn EXCEPT ![p] = sn]
            /\ wt' = wt + 1
            /\ lms' = [lms EXCEPT ![p] = "inf"]
            /\ pc' = [pc EXCEPT ![p] = "e_cv"]
            /\ ret' = [ret EXCEPT ![p] = "none"]
            /\ notified' = notified \ {p}
            /\ UNCHANGED <<signaled, wc, wrec, waitx>>
    /\ UNCHANGED <<ops, cst, schedVars, crashed, mutexVars, manual, sn, hl,
                   wgVars, chanVars, placeVars, rclosed, arg, failed,
                   otherVars>>

\* the vector the closure of clear() empties, and the elements it hands
\* to _dcb
ClosureVec(c) == {SchedOf(c)}
Elems(v) == {v[k] : k \in 1..Len(v)}

\* the closure of clear(): _dcb on every element of the vector of the
\* scheduler it runs on, v.clear(), wg.done() up to the signal
PoolClosure(c) ==
    /\ \E s \in Scheds : c = ClearCo(s) /\ nclr[s] > 0
    /\ AtStep(c, "idle")
    /\ c \notin ran
    /\ ran' = ran \cup {c}
    /\ pools' = [s \in Scheds |-> IF s \in ClosureVec(c) THEN <<>> ELSE pools[s]]
    /\ destroyed' = IF dcb
                    THEN destroyed \cup
                           UNION {Elems(pools[s]) : s \in ClosureVec(c)}
                    ELSE destroyed
    /\ LET x == (wg - 1) % WgMod IN
         /\ wg' = x
         /\ zeroSeen' = (zeroSeen \/ x = 0)
         /\ atZero' = IF x = 0 THEN atZero \cup {q \in Procs : Blocked(q)}
                       ELSE atZero
         /\ pc' = [pc EXCEPT ![c] = DoneNext(x)]
         /\ crashed' = (DoneNext(x) = "fatal")
    /\ doneCnt' = doneCnt + 1
    /\ UNCHANGED <<ops, cst, schedVars, mutexVars, eventVars, wg0, sumAdd,
                   chanVars, placeVars, rclosed, arg, failed, stopVars, ext, dcb,
                   held, nextel, nclr, clearer>>

\* the closure of a coroutine returns; the closure of clear() returns
\* after its wg.done()
PoolCoEnd(c) ==
    /\ (\E s \in Scheds : c = ClearCo(s)) => c \in ran
    /\ CoEnd(c)

InitL ==
    /\ ops = PoolOps
    /\ pc = [p \in Procs |-> "idle"]
    /\ cst = [c \in Coros |-> "new"]
    /\ newq = [s \in Scheds |-> IF s = "s0" THEN <<"a">> ELSE <<>>]
    /\ readyq = [s \in Scheds |-> <<>>]
    /\ batch = [s \in Scheds |-> <<>>]
    /\ phase = [s \in Scheds |-> "idle"]
    /\ running = [s \in Scheds |-> None]
    /\ tmo = [s \in Scheds |-> FALSE]
    /\ timer = [s \in Scheds |-> <<>>]
    /\ it = [c \in Coros |-> FALSE]
    /\ crashed = FALSE
    /\ InitMutex
    /\ InitEvent(FALSE, FALSE, 0)
    /\ InitChan(1, "inf")
    /\ InitPlace
    /\ InitStop
    /\ \E v \in PoolVecs, d \in BOOLEAN : InitPool(v, d)
    /\ ext = ExtInit

NextL ==
    \/ \E s \in Scheds : SchedWake(s)
    \/ \E s \in Scheds : SchedResume(s)
    \/ \E s \in Scheds : SchedCheckTimeout(s)
    \/ \E c \in Coros : PoolCoEnd(c)
    \/ \E c \in Coros : PoolPop(c)
    \/ \E c \in Coros : PoolPush(c)
    \/ \E p \in Procs : PoolClear(p)
    \/ \E p \in Procs : PoolClearWait(p)
    \/ \E c \in Coros : PoolClosure(c)
    \/ \E p \in Procs : WgSignal(p)
    \/ \E c \in Coros : EventWaitArm(c)
    \/ \E c \in Coros : EventWaitBack(c)
    \/ \E t \in Threads : EventCvNotified(t)
    \/ \E t \in Threads : EventCvSpurious(t)

SpecPool == InitL /\ [][NextL]_vars


\* clear() puts exactly one closure on every scheduler
OneClosureEach ==
    /\ [](\A s \in Scheds : nclr[s] <= 1)
    /\ [][(clearer = None /\ clearer' # None)
            => \A s \in Scheds :
                 /\ nclr'[s] = 1
                 /\ newq'[s] = Append(newq[s], ClearCo(s))]_vars

\* a closure of clear() empties the vector of its own scheduler, hands
\* its elements to _dcb if that is set, and leaves the other vectors alone
ClosureOwnVector ==
    [][\A c \in Coros :
         (c \notin ran /\ c \in ran')
           => /\ pools'[SchedOf(c)] = <<>>
              /\ \A s \in Scheds \ {SchedOf(c)} : pools'[s] = pools[s]
              /\ destroyed' = destroyed \cup
                    (IF dcb THEN Elems(pools[SchedOf(c)]) ELSE {})]_vars

\* the step in which clear() returns to p
ClearReturns(p) ==
    /\ clearer = p
    /\ pc[p] \in {"pl_go", "e_back", "e_cv"}
    /\ pc'[p] = "idle"

\* when clear() returns every closure has finished and every vector is
\* empty
ClearWaitsForAll ==
    [][\A p \in Procs :
         ClearReturns(p)
           => \A s \in Scheds : ClearCo(s) \in ran' /\ pools'[s] = <<>>]_vars

\* the same for a clear() called in a coroutine
ClearWaitsForAllCo ==
    [][\A p \in Coros :
         ClearReturns(p)
           => \A s \in Scheds : ClearCo(s) \in ran' /\ pools'[s] = <<>>]_vars

\* push and pop on one scheduler leave the vectors of the others alone
PushPopOwnVector ==
    [][\A c \in Coros :
         (PoolPop(c) \/ PoolPush(c))
           => \A s \in Scheds \ {SchedOf(c)} : pools'[s] = pools[s]]_vars

\* C23: clear() with active schedulers starts exactly one coroutine on
\* every scheduler, each destroys and removes only the elements of the
\* vector of its own scheduler; clear() returns only after all of them
\* have finished, and then every vector is empty; push and pop on
\* scheduler i never touch the vector of scheduler j # i.
C23_PoolClear ==
    /\ OneClosureEach
    /\ ClosureOwnVector
    /\ ClearWaitsForAll
    /\ PushPopOwnVector

\* C23 for a clear() called in a coroutine
C23_PoolClearCo ==
    /\ OneClosureEach
    /\ ClosureOwnVector
    /\ ClearWaitsForAllCo
    /\ PushPopOwnVector


\* ------------------------------------------------------------------------
\* C24: every Waitx record in the coroutine waiter list of an event that
\* is in state wait names in its coroutine field the coroutine that
\* enqueued it and whose waitx pointer refers to it, also after wait()
\* reused a timed-out head record created by another coroutine.
C24_WaiterIdentity ==
    \A i \in 1..Len(wc) :
        LET x == wc[i] IN
          wrec[x].state = "wait"
            => /\ wrec[x].co \in Coros
               /\ waitx[wrec[x].co] = x
               /\ pc[wrec[x].co] \in {"e_arm", "e_wait"}


\* ------------------------------------------------------------------------
\* nobody but t has called wait() on the event
OnlyWaiter(t) ==
    \A q \in Procs \ {t} :
        /\ ret[q] = "none"
        /\ pc[q] \notin {"e_arm", "e_wait", "e_back", "e_cv"}

\* C25: no signal is lost on an auto-reset event: every signal() either
\* latches signaled = true or causes at least one wait() to return true,
\* also when the timed wait of a thread expires together with the signal()
\* that counted it in _wt and advanced _sn.  A thread in the set notified
\* was counted by a signal() that did not latch; when it is the only
\* waiter the event ever had, its wait() is the one that returns true.
C25_NoLostSignal ==
    [][\A t \in Threads :
         (/\ ~manual
          /\ pc[t] = "e_cv"
          /\ t \in notified
          /\ OnlyWaiter(t)
          /\ pc'[t] = "idle")
           => ret'[t] = "true"]_vars

\* a signal() that counted a thread never latches: the thread is its only
\* chance to be seen
C25_CountedNotLatched ==
    [][\A p \in Procs :
         (EventSignal(p) /\ wt > 0 /\ ~signaled) => ~signaled']_vars


\* ------------------------------------------------------------------------
\* C26: on a manual-reset event, after a signal() and until reset() is
\* called, every wait(ms) returns true without blocking, whether or not
\* waiters were present when signal() ran.  wait() looks at _signaled
\* only, so this says: signal() leaves _signaled set, nothing but reset()
\* clears it, and a wait() that finds it set returns true at once.
C26_ManualReset ==
    [][manual =>
         /\ \A p \in Procs : EventSignal(p) => signaled'
         /\ (signaled /\ ~signaled') => \E p \in Procs : EventReset(p)
         /\ \A p \in Procs, ms \in MsArgs :
              (signaled /\ (EventWaitCo(p, ms) \/ EventWaitTh(p, ms)))
                => ret'[p] = "true" /\ pc'[p] = "idle"]_vars

\* the same for a signal() that finds no waiter
C26_ManualResetNoWaiter ==
    [][manual =>
         /\ \A p \in Procs :
              (EventSignal(p) /\ wt = 0 /\ FirstLive(wc, wrec) = 0)
                => signaled'
         /\ (signaled /\ ~signaled') => \E p \in Procs : EventReset(p)
         /\ \A p \in Procs, ms \in MsArgs :
              (signaled /\ (EventWaitCo(p, ms) \/ EventWaitTh(p, ms)))
                => ret'[p] = "true" /\ pc'[p] = "idle"]_vars


\* ------------------------------------------------------------------------
\* Progress of co::mutex.  The scheduler threads keep running their loop,
\* a running coroutine or thread takes its next step, the closure of a
\* coroutine returns, a holder leaves its critical section, and a grant
\* (_lock == 2 after notify_one) is taken by one of the blocked threads.
FairM ==
    /\ \A s \in Scheds :
         WF_vars(SchedWake(s) \/ SchedResume(s) \/ SchedCheckTimeout(s))
    /\ \A c \in Coros : WF_vars(CoEnd(c) \/ MutexLockYield(c))
    /\ \A p \in Procs : WF_vars(CsRead(p) \/ CsWrite(p) \/ MutexUnlock(p))
    /\ WF_vars(\E t \in Threads : MutexLockWake(t))

ProgressOps == 3

InitMP ==
    /\ ops = ProgressOps
    /\ InitSched
    /\ InitMutex
    /\ InitEvent(FALSE, FALSE, 0)
    /\ InitChan(1, "inf")
    /\ InitPlace
    /\ InitOther

FairSpecMutex == InitMP /\ [][NextM]_vars /\ FairM

InLock(p) == pc[p] \in {"m_yield", "m_wait", "m_cv"}
ThreadEntries == Len(SelectSeq(mwq, LAMBDA x : x = None))

\* a free lock byte has no waiter behind it, and every thread blocked on
\* _cv has an entry in the queue or a pending grant
NoWaiterOnFreeLock ==
    /\ mlock = 0 => (mwq = <<>> /\ \A p \in Procs : ~InLock(p))
    /\ Cardinality({t \in Threads : pc[t] = "m_cv"}) = ThreadEntries + Grants

BlockedWriter(p) ==
    /\ pc[p] \in {"w_arm", "w_wait", "w_cv"}
    /\ InSeq(cwq, lw[p])
    /\ Owns(p)
    /\ wrec[lw[p]].state = "wait"

\* C28: a writer blocked on a full channel when close() is called does
\* not stay blocked for ever: with the infinite timeout and no read()
\* after the close, every write() pending at the close eventually returns
\* with done = false.  Such a writer returns only when its record has been
\* marked ready; without a later read() the locked section of close() is
\* the only code left to do it.
C28_CloseWakesWriters ==
    [][\A p \in ChanProcs :
         (cms = "inf" /\ BlockedWriter(p) /\ closed = 1 /\ closed' = 2)
           => /\ wrec'[lw[p]].state = "ready"
              /\ wdone'[lw[p]] # 0]_vars

\* after the close a writer blocked with the infinite timeout stays
\* blocked in every step that is not a read()
C28_OnlyReadFrees ==
    [][\A p \in ChanProcs :
         (cms = "inf" /\ BlockedWriter(p) /\ closed = 2)
           => \/ BlockedWriter(p)'
              \/ \E q \in ChanProcs : ChanRead(q)
              \/ crashed']_vars


\* ------------------------------------------------------------------------
LiveRecs == {w \in Wids : InSeq(cwq, w) /\ wrec[w].state = "wait"}
IsReaderRec(w) == wval[w] = 0
BufEmpty == rx = wx /\ full = 0
BufFull == full = 1

\* C29: whenever the channel mutex is free, if the wait queue holds a
\* record in state wait then either the buffer is empty and every such
\* record is a reader or the buffer is full and every such record is a
\* writer; reader and writer records in state wait never coexist; no
\* record, live or timed out, is in the queue while the buffer is
\* partially filled.
C29_WaitQueue ==
    /\ LiveRecs # {} =>
         \/ BufEmpty /\ \A w \in LiveRecs : IsReaderRec(w)
         \/ BufFull /\ \A w \in LiveRecs : ~IsReaderRec(w)
    /\ \A v, w \in LiveRecs : IsReaderRec(v) <=> IsReaderRec(w)
    /\ (~BufEmpty /\ ~BufFull) => cwq = <<>>

\* a full buffer: the record of a writer that timed out is at the head of
\* the queue, a writer in state wait is behind it
C29_Witness ==
    /\ BufFull
    /\ Len(cwq) = 2
    /\ wrec[cwq[1]].state = "timeout"
    /\ wrec[cwq[2]].state = "wait"
    /\ ~IsReaderRec(cwq[2])


\* ------------------------------------------------------------------------
\* the blocks of the ring that hold an element
Occupied == {i \in 0..(cap - 1) : ring[i] # 0}

\* C30: full = 1 implies rx = wx; rx and wx are multiples of the block
\* size below the buffer size (block indexes below the capacity, the
\* ring being counted in blocks); the buffer is empty exactly when
\* rx = wx and full = 0; the number of stored elements, the capacity when
\* full and else (wx - rx) mod the buffer size in blocks, never exceeds
\* the capacity; write() sets full exactly when wx catches up with rx and
\* read() clears it only when no waiting writer refills the freed slot.
C30_BufferState ==
    /\ [](/\ full \in {0, 1}
          /\ full = 1 => rx = wx
          /\ rx \in 0..(cap - 1) /\ wx \in 0..(cap - 1)
          /\ (Occupied = {}) <=> (rx = wx /\ full = 0)
          /\ Cardinality(Occupied) = RingCount
          /\ RingCount <= cap)
    /\ [][/\ \A p \in ChanProcs :
               (ChanWrite(p) /\ ring' # ring) => (full' = 1 <=> wx' = rx)
          /\ (full = 0 /\ full' = 1)
               => \E p \in ChanProcs : ChanWrite(p) /\ ring' # ring
          /\ (full = 1 /\ full' = 0)
               => /\ \E p \in ChanProcs : ChanRead(p)
                  /\ PipeFirst(cwq, FALSE) = 0
                  /\ cwq' = <<>>
          /\ \A p \in ChanProcs :
               (ChanRead(p) /\ full = 1 /\ PipeFirst(cwq, FALSE) # 0)
                 => full' = 1 /\ wx' = rx']_vars

\* a ring of two blocks is full again after both indexes have moved on
C30_Witness ==
    /\ cap = 2
    /\ full = 1
    /\ rx = 1
    /\ wx = 1
    /\ Len(rlog) = 1

\* ------------------------------------------------------------------------
\* C31, C32: the hand-off between a caller and the head of the wait queue

\* the positions in _wq of the records that have not timed out
LivePos == {i \in 1..Len(cwq) : wrec[cwq[i]].state = "wait"}
FirstPos(S) == CHOOSE i \in S : \A j \in S : i <= j

\* the number of places that hold element v: blocks of the ring buffer and
\* the destinations of the waiting records
Copies(v, rg, wv, wr) ==
    Cardinality({i \in 0..(cap - 1) : rg[i] = v})
      + Cardinality({w \in Wids : wr[w].alloc /\ wv[w] = v})

\* the step is a write() of p that finds the channel open and empty
WriteOnEmpty(p) ==
    /\ ChanWrite(p)
    /\ ~IsClosed
    /\ rx = wx
    /\ full = 0

\* C31: write() on an empty open channel pops the records at the head of
\* the wait queue, frees the timed-out ones and hands the element to the
\* first reader that has not timed out (x.done = 1; a coroutine reader is
\* added to the ready tasks of its scheduler, a thread reader is notified),
\* leaving rx, wx, full and the buffer as they were; when no reader is left
\* the element goes into the buffer; in both cases write() is done and
\* the element exists exactly once.
C31_WriteHandOff ==
    [][\A p \in Procs :
         WriteOnEmpty(p) =>
           /\ ret'[p] = "true"
           /\ Copies(nextv, ring', wval', wrec') = 1
           /\ IF LivePos # {}
              THEN LET k == FirstPos(LivePos)
                       w == cwq[k]
                   IN /\ rx' = rx /\ wx' = wx /\ full' = full /\ ring' = ring
                      /\ wdone'[w] = 1
                      /\ wval'[w] = nextv
                      /\ wrec'[w].alloc
                      /\ \A i \in 1..(k - 1) : ~wrec'[cwq[i]].alloc
                      /\ cwq' = SubSeq(cwq, k + 1, Len(cwq))
                      /\ readyq' = IF wrec[w].co \in Coros
                                   THEN [readyq EXCEPT ![SchedOf(wrec[w].co)] =
                                                          Append(@, wrec[w].co)]
                                   ELSE readyq
                      /\ wrec[w].co \notin Coros =>
                           \E t \in Threads : pc[t] = "r_cv" /\ lw[t] = w
              ELSE /\ ring'[wx] = nextv
                   /\ wx' = Inc(wx)
                   /\ rx' = rx
                   /\ cwq' = <<>>
                   /\ \A i \in 1..Len(cwq) : ~wrec'[cwq[i]].alloc
                   /\ readyq' = readyq
                   /\ wdone' = wdone]_vars

\* a write() has freed the record of a timed-out reader and handed its
\* element to the reader behind it
C31_Witness ==
    /\ closed = 0
    /\ nw = 1
    /\ Len(rlog) = 1
    /\ rx = wx
    /\ full = 0
    /\ \E x \in Wids : ~wrec[x].alloc /\ wrec[x].state = "timeout" /\ wval[x] = 0
    /\ \E w \in Wids :
         /\ wrec[w].alloc
         /\ wdone[w] = 1
         /\ wval[w] = rlog[1]
         /\ wrec[w].co \in Coros
         /\ InSeq(readyq[SchedOf(wrec[w].co)], wrec[w].co)

\* the step is a read() of p that finds the buffer full
ReadOnFull(p) ==
    /\ ChanRead(p)
    /\ rx = wx
    /\ full = 1

\* the oldest element in the buffer: elements are numbered in the order
\* they were written
OldestInRing ==
    CHOOSE v \in {ring[i] : i \in 0..(cap - 1)} :
        \A i \in 0..(cap - 1) : v <= ring[i]

\* the records whose x.done is set by the step
Released == {w \in Wids : wdone[w] = 0 /\ wdone'[w] = 1}

\* C32: read() on a full channel returns the oldest buffered element, pops
\* the records at the head of the wait queue, frees the timed-out ones and
\* puts the element of the first writer that has not timed out into the
\* buffer, which stays full, waking that writer with x.done = 1; with no
\* such writer it clears the full flag; one read() releases at most one
\* blocked writer.
C32_ReadOnFull ==
    [][\A p \in Procs :
         ReadOnFull(p) =>
           /\ ret'[p] = "true"
           /\ got'[p] = OldestInRing
           /\ rx' = Inc(rx)
           /\ Cardinality(Released) <= 1
           /\ IF LivePos # {}
              THEN LET k == FirstPos(LivePos)
                       w == cwq[k]
                   IN /\ ring'[wx] = wval[w]
                      /\ wx' = Inc(wx)
                      /\ full' = 1
                      /\ Released = {w}
                      /\ wrec'[w].alloc
                      /\ \A i \in 1..(k - 1) : ~wrec'[cwq[i]].alloc
                      /\ cwq' = SubSeq(cwq, k + 1, Len(cwq))
                      /\ readyq' = IF wrec[w].co \in Coros
                                   THEN [readyq EXCEPT ![SchedOf(wrec[w].co)] =
                                                          Append(@, wrec[w].co)]
                                   ELSE readyq
                      /\ wrec[w].co \notin Coros =>
                           \E t \in Threads : pc[t] = "w_cv" /\ lw[t] = w
              ELSE /\ full' = 0
                   /\ wx' = wx
                   /\ cwq' = <<>>
                   /\ \A i \in 1..Len(cwq) : ~wrec'[cwq[i]].alloc
                   /\ Released = {}
                   /\ readyq' = readyq]_vars

\* a read() on a full channel has freed the record of a timed-out writer
\* and moved the element of the writer behind it into the buffer
C32_Witness ==
    /\ closed = 0
    /\ full = 1
    /\ Len(rlog) = 1
    /\ \E x \in Wids : ~wrec[x].alloc /\ wrec[x].state = "timeout" /\ wval[x] # 0
    /\ \E w \in Wids :
         /\ wrec[w].alloc
         /\ wdone[w] = 1
         /\ wval[w] # 0
         /\ \E i \in 0..(cap - 1) : ring[i] = wval[w]

\* ------------------------------------------------------------------------
\* C33: the lock byte of the mutex

\* the byte unlock() must leave behind, by the entry at the head of _wq
ByteAfterUnlock ==
    IF mwq = <<>> THEN 0
    ELSE IF Head(mwq) \in Coros THEN 1
    ELSE 2

\* C33: unlock() sets the lock byte to 0 only when the waiter queue is
\* empty, leaves it at 1 when it hands the lock to a coroutine waiter and
\* sets it to 2 when it hands the lock to a thread waiter, and only that
\* thread's wake-up sets it back to 1; a non-empty waiter queue implies a
\* non-zero lock byte; try_lock() succeeds only when the byte is 0 and
\* changes nothing otherwise.
C33_LockByte ==
    /\ [](mlock \in {0, 1, 2} /\ (mwq # <<>> => mlock # 0))
    /\ [][\A p \in Procs :
            MutexUnlock(p) => (mlock = 1 /\ mlock' = ByteAfterUnlock)]_vars
    /\ [][(mlock = 2 /\ mlock' # 2) =>
            /\ mlock' = 1
            /\ \E t \in Threads : pc[t] = "m_cv" /\ pc'[t] = "cs_r"]_vars
    /\ [][\A p \in Procs :
            MutexTryLock(p) =>
              IF mlock = 0
              THEN mlock' = 1 /\ pc'[p] = "cs_r"
              ELSE mlock' = mlock /\ pc'[p] = pc[p] /\ mwq' = mwq]_vars

\* unlock() has granted the lock to a thread waiter (byte 2) while a
\* coroutine is still in the waiter queue
C33_Witness ==
    /\ mlock = 2
    /\ \E t \in Threads : pc[t] = "m_cv"
    /\ \E i \in 1..Len(mwq) : mwq[i] \in Coros

\* ------------------------------------------------------------------------
\* The scheduler loop with the poller: I/O events, the mailbox, timers;
\* sleep and I/O waits next to the timed waits on the event (sched.cc
\* 106-163 Sched::resume, 165-273 Sched::loop, 275-304
\* TimerManager::check_timeout)

LoopOps == 3

\* the map after an entry for c went in at position k + 1
InsertAt(q, k, c) == SubSeq(q, 1, k) \o <<c>> \o SubSeq(q, k + 1, Len(q))

\* Sched::sleep(ms) in a coroutine: add_timer(ms), which puts an entry at
\* now + ms into the ordered map and stores the handle on the coroutine,
\* then yield; the coroutine has no waitx
CoSleep(c) ==
    /\ c \in Coros
    /\ CanCall(c)
    /\ ops' = ops - 1
    /\ \E k \in 0..Len(timer[SchedOf(c)]) :
         timer' = [timer EXCEPT ![SchedOf(c)] = InsertAt(@, k, c)]
    /\ it' = [it EXCEPT ![c] = TRUE]
    /\ YieldTo(c, "sl_wait")
    /\ UNCHANGED <<newq, readyq, batch, phase, tmo, crashed, mutexVars,
                   eventVars, wgVars, chanVars, placeVars, rclosed, arg,
                   failed, otherVars>>

\* Sched::sleep returns in the coroutine after it was resumed
SleepBack(c) ==
    /\ c \in Coros
    /\ AtStep(c, "sl_wait")
    /\ pc' = [pc EXCEPT ![c] = "idle"]
    /\ UNCHANGED <<ops, cst, schedVars, crashed, mutexVars, eventVars, wgVars,
                   chanVars, placeVars, rclosed, arg, failed, otherVars>>

\* an I/O routine in a coroutine: add_io_event on its descriptor,
\* add_timer(ms) when the call has a timeout, yield
CoIoWait(c) ==
    /\ c \in Coros
    /\ CanCall(c)
    /\ ops' = ops - 1
    /\ ext' = [ext EXCEPT !.ioreg = @ \cup {c}]
    /\ \/ UNCHANGED <<timer, it>>
       \/ /\ \E k \in 0..Len(timer[SchedOf(c)]) :
               timer' = [timer EXCEPT ![SchedOf(c)] = InsertAt(@, k, c)]
          /\ it' = [it EXCEPT ![c] = TRUE]
    /\ YieldTo(c, "io_wait")
    /\ UNCHANGED <<newq, readyq, batch, phase, tmo, crashed, mutexVars,
                   eventVars, wgVars, chanVars, placeVars, rclosed, arg,
                   failed, stopVars, poolVars>>

\* the I/O routine after the yield: del_io_event, then the result
IoBack(c) ==
    /\ c \in Coros
    /\ AtStep(c, "io_wait")
    /\ ext' = [ext EXCEPT !.ioreg = @ \ {c}]
    /\ pc' = [pc EXCEPT ![c] = "idle"]
    /\ UNCHANGED <<ops, cst, schedVars, crashed, mutexVars, eventVars, wgVars,
                   chanVars, placeVars, rclosed, arg, failed, stopVars,
                   poolVars>>

\* co::go from a thread: add_new_task on the scheduler of a closure that
\* has not been submitted yet
Submitted(c) ==
    \/ cst[c] # "new"
    \/ InSeq(newq[SchedOf(c)], c)
    \/ InSeq(batch[SchedOf(c)], c)

GoTask(t, c) ==
    /\ t \in Threads
    /\ c \in Coros
    /\ CanCall(t)
    /\ ~Submitted(c)
    /\ ops' = ops - 1
    /\ newq' = [newq EXCEPT ![SchedOf(c)] = Append(@, c)]
    /\ UNCHANGED <<pc, cst, readyq, batch, phase, running, tmo, timer, it,
                   crashed, mutexVars, eventVars, wgVars, chanVars, placeVars,
                   rclosed, arg, failed, otherVars>>

\* the events _epoll->wait can return on scheduler s: the coroutines
\* registered on s, each at most once, in any order
IoBatches(s) ==
    LET R == {c \in ext.ioreg : SchedOf(c) = s} IN
      {<<>>} \cup {<<c>> : c \in R}
             \cup {<<e[1], e[2]>> : e \in {f \in R \X R : f[1] # f[2]}}

\* Sched::loop, lines 172-186: _epoll->wait(_wait_ms) returns with n
\* events, because of an event, of a task posted to the mailbox or of the
\* deadline of the earliest timer
SchedPoll(s) ==
    /\ ~crashed
    /\ phase[s] = "idle"
    /\ \E ev \in IoBatches(s) :
         /\ ev # <<>> \/ newq[s] # <<>> \/ readyq[s] # <<>> \/ timer[s] # <<>>
         /\ batch' = [batch EXCEPT ![s] = ev]
    /\ phase' = [phase EXCEPT ![s] = "io"]
    /\ UNCHANGED <<procVars, newq, readyq, running, tmo, timer, it, crashed,
                   mutexVars, eventVars, wgVars, chanVars, placeVars, rclosed,
                   arg, failed, otherVars>>

\* Sched::loop, lines 184-217, with Sched::resume: the coroutine of the
\* next I/O event is resumed; its timer is removed first
IoResume(s) ==
    /\ ~crashed
    /\ phase[s] = "io"
    /\ running[s] = None
    /\ batch[s] # <<>>
    /\ LET c == Head(batch[s]) IN
         /\ cst[c] = "susp"
         /\ batch' = [batch EXCEPT ![s] = Tail(@)]
         /\ cst' = [cst EXCEPT ![c] = "run"]
         /\ running' = [running EXCEPT ![s] = c]
         /\ pc' = [pc EXCEPT ![c] = AfterYield(pc[c])]
         /\ timer' = [timer EXCEPT ![s] = TimerAfterResume(@, it[c], c)]
         /\ it' = [it EXCEPT ![c] = FALSE]
    /\ UNCHANGED <<ops, newq, readyq, phase, tmo, crashed, mutexVars,
                   eventVars, wgVars, chanVars, placeVars, rclosed, arg,
                   failed, otherVars>>

\* Sched::loop, lines 221-249: the order in which the tasks taken from
\* the mailbox are resumed
DrainReadyFirst(nq, rq) == rq \o nq
Drain(nq, rq) == nq \o rq

\* Sched::loop, lines 219-250: after the I/O events, get_all_tasks takes
\* both queues of the mailbox in one critical section; the new tasks are
\* resumed before the ready tasks
SchedDrain(s) ==
    /\ ~crashed
    /\ phase[s] = "io"
    /\ running[s] = None
    /\ batch[s] = <<>>
    /\ batch' = [batch EXCEPT ![s] = Drain(newq[s], readyq[s])]
    /\ newq' = [newq EXCEPT ![s] = <<>>]
    /\ readyq' = [readyq EXCEPT ![s] = <<>>]
    /\ phase' = [phase EXCEPT ![s] = "tasks"]
    /\ UNCHANGED <<procVars, running, tmo, timer, it, crashed, mutexVars,
                   eventVars, wgVars, chanVars, placeVars, rclosed, arg,
                   failed, otherVars>>

\* the schedulers with the closures of a and c submitted; the closure
\* of b is submitted already or later
InitLoop ==
    /\ ops = LoopOps
    /\ pc = [p \in Procs |-> "idle"]
    /\ cst = [c \in Coros |-> "new"]
    /\ \E q \in {<<"a">>, <<"a", "b">>} :
         newq = [s \in Scheds |-> IF s = "s0" THEN q ELSE <<"c">>]
    /\ readyq = [s \in Scheds |-> <<>>]
    /\ batch = [s \in Scheds |-> <<>>]
    /\ phase = [s \in Scheds |-> "idle"]
    /\ running = [s \in Scheds |-> None]
    /\ tmo = [s \in Scheds |-> FALSE]
    /\ timer = [s \in Scheds |-> <<>>]
    /\ it = [c \in Coros |-> FALSE]
    /\ crashed = FALSE
    /\ InitMutex
    /\ InitEvent(FALSE, FALSE, 0)
    /\ InitChan(1, "inf")
    /\ InitPlace
    /\ InitOther

NextLoop ==
    \/ \E s \in Scheds : SchedPoll(s)
    \/ \E s \in Scheds : IoResume(s)
    \/ \E s \in Scheds : SchedDrain(s)
    \/ \E s \in Scheds : SchedResume(s)
    \/ \E s \in Scheds : SchedCheckTimeout(s)
    \/ \E s \in Scheds : SchedEndIter(s)
    \/ \E c \in Coros : CoEnd(c)
    \/ \E t \in Threads, c \in Coros : GoTask(t, c)
    \/ \E c \in Coros : CoSleep(c)
    \/ \E c \in Coros : SleepBack(c)
    \/ \E c \in Coros : CoIoWait(c)
    \/ \E c \in Coros : IoBack(c)
    \/ \E c \in Coros : EventWaitCo(c, "fin")
    \/ \E c \in Coros : EventWaitArm(c)
    \/ \E c \in Coros : EventWaitBack(c)
    \/ \E p \in Procs : EventSignal(p)
    \/ \E p \in Procs : SignalNext(p)

SpecLoop == InitLoop /\ [][NextLoop]_vars

\* check_timeout: the entries the step took from the head of the map
ExpiredBy(s) == SubSeq(timer[s], 1, Len(timer[s]) - Len(timer'[s]))

\* the coroutine has no waitx, or its record is still in state wait
NoWaitxOrCas(c) == waitx[c] = 0 \/ wrec[waitx[c]].state = "wait"

\* C34: check_timeout clears the timer handle of every coroutine whose
\* entry has expired and removes the entry; the coroutine goes into the
\* timeout batch iff it has no waitx or the CAS of its record from wait to
\* timeout succeeds; timeout() is true for a running coroutine exactly
\* when its resume came from that batch, and false for every resume from
\* the mailbox or from an I/O event.
C34_TimerExpiry ==
    /\ [][\A s \in Scheds :
            SchedCheckTimeout(s) =>
              LET exp == ExpiredBy(s) IN
                /\ timer'[s] = SubSeq(timer[s], Len(exp) + 1, Len(timer[s]))
                /\ \A c \in Coros :
                     InSeq(exp, c) => (~it'[c] /\ ~InSeq(timer'[s], c))
                /\ batch'[s] = SelectSeq(exp, NoWaitxOrCas)
                /\ \A c \in Coros :
                     (InSeq(exp, c) /\ waitx[c] # 0 /\ NoWaitxOrCas(c))
                       => wrec'[waitx[c]].state = "timeout"
                /\ tmo'[s] = (batch'[s] # <<>>)]_vars
    /\ [][\A c \in Coros :
            (cst[c] # "run" /\ cst'[c] = "run")
              => (tmo'[SchedOf(c)] <=> phase[SchedOf(c)] = "timers")]_vars
    /\ [](\A s \in Scheds :
            running[s] # None => (tmo[s] <=> phase[s] = "timers"))

\* a sleeping coroutine runs again with timeout() true while a coroutine
\* whose timed wait expired in the same check_timeout stays suspended: the
\* signal had won the CAS on its record
C34_Witness ==
    \E c, d \in Coros :
        /\ SchedOf(c) = SchedOf(d)
        /\ running[SchedOf(c)] = c
        /\ pc[c] = "sl_wait"
        /\ tmo[SchedOf(c)]
        /\ pc[d] = "e_wait"
        /\ cst[d] = "susp"
        /\ ~it[d]
        /\ wrec[waitx[d]].state = "ready"
        /\ ~InSeq(timer[SchedOf(d)], d)

\* ------------------------------------------------------------------------
\* TimerManager with its deadlines (sched.cc 275-304): ext.tmap is the
\* ordered map as the sequence of its entries [key, co], ext.now the value
\* of now::ms(), ext.waitms the value check_timeout returned last and
\* ext.res the entries it delivered last
\* ------------------------------------------------------------------------

\* (uint32_t)-1
Indefinite == (2 ^ TimerBits) - 1

\* multimap insert: behind the entries whose key is not greater
InsertKey(q, e) ==
    InsertAt(q, Cardinality({i \in 1..Len(q) : q[i].key <= e.key}), e)

HasEntry(c) == \E i \in 1..Len(ext.tmap) : ext.tmap[i].co = c

\* TimerManager::add_timer(ms, co): the entry is inserted at now + ms
TmAdd(c, ms) ==
    /\ c \in Coros
    /\ ms \in 0..Indefinite
    /\ ops > 0
    /\ ~HasEntry(c)
    /\ ops' = ops - 1
    /\ ext' = [ext EXCEPT !.tmap = InsertKey(@, [key |-> ext.now + ms, co |-> c])]
    /\ UNCHANGED <<pc, cst, schedVars, crashed, mutexVars, eventVars, wgVars,
                   chanVars, placeVars, rclosed, arg, failed, stopVars,
                   poolVars>>

\* TimerManager::del_timer(it), called by Sched::resume (lines 133-136)
TmDel(c) ==
    /\ HasEntry(c)
    /\ ext' = [ext EXCEPT !.tmap = SelectSeq(@, LAMBDA e : e.co # c)]
    /\ UNCHANGED <<procVars, schedVars, crashed, mutexVars, eventVars, wgVars,
                   chanVars, placeVars, rclosed, arg, failed, stopVars,
                   poolVars>>

\* a millisecond passes
Tick ==
    /\ ext.now < MaxNow
    /\ ext' = [ext EXCEPT !.now = @ + 1]
    /\ UNCHANGED <<procVars, schedVars, crashed, mutexVars, eventVars, wgVars,
                   chanVars, placeVars, rclosed, arg, failed, stopVars,
                   poolVars>>

\* the number of entries check_timeout walks: those with key <= now
Due(q, now) == Cardinality({i \in 1..Len(q) : q[i].key <= now})

\* line 303: the value returned for the map that is left
WaitMs(q, now) ==
    IF q = <<>> THEN Indefinite ELSE (Head(q).key - now) % (2 ^ TimerBits)

\* TimerManager::check_timeout, lines 275-304
TmCheck ==
    LET k == Due(ext.tmap, ext.now)
        exp == SubSeq(ext.tmap, 1, k)
        rest == SubSeq(ext.tmap, k + 1, Len(ext.tmap))
        r == Expire([i \in 1..k |-> exp[i].co], wrec, <<>>)
    IN /\ wrec' = r.wr
       /\ ext' = [ext EXCEPT
                    !.tmap = rest,
                    !.res = SelectSeq(exp, LAMBDA e : InSeq(r.res, e.co)),
                    !.waitms = WaitMs(rest, ext.now)]
    /\ UNCHANGED <<procVars, schedVars, crashed, mutexVars, signaled, manual,
                   wc, wt, sn, waitx, hl, lsn, lms, ret, notified, wgVars,
                   chanVars, placeVars, rclosed, arg, failed, stopVars,
                   poolVars>>

InitClock ==
    /\ ops = ClockOps
    /\ InitSched
    /\ InitMutex
    /\ InitEvent(FALSE, FALSE, 0)
    /\ InitChan(1, "inf")
    /\ InitPlace
    /\ InitOther

NextClock ==
    \/ \E c \in Coros, ms \in 0..Indefinite : TmAdd(c, ms)
    \/ \E c \in Coros : TmDel(c)
    \/ Tick
    \/ TmCheck

SpecClock == InitClock /\ [][NextClock]_vars

Sorted(q) == \A i \in 1..Len(q), j \in 1..Len(q) : i < j => q[i].key <= q[j].key

\* the map is ordered by deadline in every reachable state
MapSorted == Sorted(ext.tmap)

\* C35: check_timeout returns a wait_ms with now + wait_ms <= the earliest
\* deadline left in the map, returns the indefinite value (all ones) iff
\* the map is empty after the expiry, leaves no entry with a deadline <=
\* now in the map, and delivers the expired entries in non-decreasing
\* deadline order.
C35_WaitMs ==
    [][TmCheck =>
         /\ ext'.tmap # <<>> => ext.now + ext'.waitms <= Head(ext'.tmap).key
         /\ (ext'.waitms = Indefinite) <=> (ext'.tmap = <<>>)
         /\ \A i \in 1..Len(ext'.tmap) : ext'.tmap[i].key > ext.now
         /\ Sorted(ext'.res)]_vars

\* the parts of C35 that hold: the bound on wait_ms, the indefinite value
\* for the empty map, nothing due is left, the order of the delivery
C35_ExceptIff ==
    [][TmCheck =>
         /\ ext'.tmap # <<>> => ext.now + ext'.waitms = Head(ext'.tmap).key
         /\ (ext'.tmap = <<>>) => (ext'.waitms = Indefinite)
         /\ \A i \in 1..Len(ext'.tmap) : ext'.tmap[i].key > ext.now
         /\ Sorted(ext'.res)
         /\ ext'.res = SubSeq(ext.tmap, 1, Len(ext.tmap) - Len(ext'.tmap))]_vars

\* check_timeout has returned the indefinite value for a map that holds a
\* timer added with ms = all ones in the same millisecond
C35_IndefiniteNonEmpty ==
    /\ ext.waitms = Indefinite
    /\ ext.tmap # <<>>
    /\ Head(ext.tmap).key = ext.now + Indefinite

\* ------------------------------------------------------------------------
\* The timer handle of a coroutine (sched.cc 130-136, 279-301)
\* ------------------------------------------------------------------------

\* number of entries of coroutine c in the timer map of scheduler s
Entries(s, c) == Cardinality({i \in 1..Len(timer[s]) : timer[s][i] = c})

\* the step resumes coroutine c from the mailbox or from an I/O event
ResumedEarly(c) ==
    /\ cst[c] = "susp"
    /\ cst'[c] = "run"
    /\ phase[SchedOf(c)] \in {"io", "tasks"}

\* C36: every coroutine has at most one entry in the timer map of its
\* scheduler and none elsewhere, and a live handle on a coroutine refers
\* to an entry of that coroutine; a suspended coroutine with an armed
\* timer that is resumed from the mailbox or from an I/O event has its
\* entry deleted and its handle cleared before it runs; an entry exists
\* only for the suspension that armed it, so a timer never resumes a
\* coroutine for another suspension.
C36_TimerHandle ==
    /\ [](\A c \in Coros :
            /\ Entries(SchedOf(c), c) <= 1
            /\ \A s \in Scheds \ {SchedOf(c)} : Entries(s, c) = 0
            /\ it[c] => Entries(SchedOf(c), c) = 1
            /\ Entries(SchedOf(c), c) = 1 => (it[c] /\ cst[c] = "susp"))
    /\ [][\A c \in Coros :
            ResumedEarly(c) => (~it'[c] /\ Entries(SchedOf(c), c)' = 0)]_vars

\* a coroutine resumed by an I/O event while its timer was armed
C36_Witness ==
    \E c \in Coros :
      /\ cst[c] = "run"
      /\ pc[c] = "io_wait"
      /\ phase[SchedOf(c)] = "io"
      /\ ~it[c]
      /\ Entries(SchedOf(c), c) = 0
      /\ \E d \in Coros \ {c} : SchedOf(d) = SchedOf(c) /\ it[d]

\* ------------------------------------------------------------------------
\* The order of the resumes in one iteration of Sched::loop (sched.cc
\* 165-273)
\* ------------------------------------------------------------------------

\* the phases in the order of the loop body
PhaseOrder ==
    {<<"idle", "io">>, <<"io", "tasks">>, <<"tasks", "timers">>,
     <<"tasks", "idle">>, <<"timers", "idle">>}

\* the coroutines of scheduler s that are running
RunningOn(s) == {c \in Coros : SchedOf(c) = s /\ cst[c] = "run"}

\* some coroutine of scheduler s starts to run in this step
ResumesOn(s) == \E c \in Coros : SchedOf(c) = s /\ cst[c] # "run" /\ cst'[c] = "run"

\* C37: an iteration of the loop goes through the I/O events returned by
\* the poller, then the new tasks in submission order followed by the
\* ready coroutines in insertion order, both as the mailbox held them at
\* the drain, then the coroutines of the expired timers; a coroutine is
\* resumed only as the head of the batch of the current phase; a task
\* added to the mailbox after the drain stays there until the next
\* iteration; at most one coroutine runs on a scheduler.
C37_LoopOrder ==
    /\ [][\A s \in Scheds :
            /\ phase'[s] # phase[s] => <<phase[s], phase'[s]>> \in PhaseOrder
            /\ (phase'[s] # phase[s] /\ phase'[s] = "io")
                 => batch'[s] \in IoBatches(s)
            /\ (phase'[s] # phase[s] /\ phase'[s] = "tasks")
                 => /\ batch[s] = <<>>
                    /\ batch'[s] = newq[s] \o readyq[s]
                    /\ newq'[s] = <<>>
                    /\ readyq'[s] = <<>>
            /\ (phase'[s] # phase[s] /\ phase[s] = "tasks")
                 => /\ batch[s] = <<>>
                    /\ \A c \in Coros : InSeq(batch'[s], c) => InSeq(timer[s], c)
            /\ (phase'[s] # phase[s] /\ phase'[s] = "idle") => batch[s] = <<>>
            /\ phase'[s] = phase[s]
                 => /\ \/ batch'[s] = batch[s]
                       \/ batch[s] # <<>> /\ batch'[s] = Tail(batch[s])
                    /\ newq'[s] # newq[s]
                         => \E c \in Coros : newq'[s] = Append(newq[s], c)
                    /\ readyq'[s] # readyq[s]
                         => \E c \in Coros : readyq'[s] = Append(readyq[s], c)
            /\ ResumesOn(s)
                 => /\ phase[s] \in {"io", "tasks", "timers"}
                    /\ phase'[s] = phase[s]
                    /\ batch[s] # <<>>
                    /\ batch'[s] = Tail(batch[s])
                    /\ cst'[Head(batch[s])] = "run"
                    /\ running'[s] = Head(batch[s])]_vars
    /\ [](\A s \in Scheds :
            /\ Cardinality(RunningOn(s)) <= 1
            /\ RunningOn(s) = IF running[s] = None THEN {} ELSE {running[s]})

\* the drain has put a new task in front of a ready coroutine that was in
\* the mailbox before the task was submitted, and the new task runs first
C37_Witness ==
    /\ phase["s0"] = "tasks"
    /\ running["s0"] = "b"
    /\ pc["b"] = "idle"
    /\ cst["a"] = "susp"
    /\ pc["a"] = "e_wait"
    /\ batch["s0"] = <<"a">>
    /\ ops + 3 = LoopOps

\* ------------------------------------------------------------------------
\* Stack slots and coroutine descriptors of one scheduler (sched.cc 82-93
\* Sched::main_func, 106-163 Sched::resume).  ext.p, ext.occ, ext.mem are
\* Stack::p, Stack::co and the live region of the stack; ext.ctx, ext.buf
\* are Coroutine::ctx and Coroutine::buf; ext.srun is _running; ext.ids
\* and ext.nid are the free list and the size of the slab of the pool;
\* ext.dst and ext.seen record the life cycle of a descriptor and the
\* frames its coroutine left on the stack at its last yield.
\* ------------------------------------------------------------------------

\* the stack slot of a descriptor: id mod stack_num
SlotOf(d) == d % StackNum

\* Sched::save_stack(co): the live region of the slot goes into the
\* buffer of the coroutine that occupies it
SaveStack(b, o, m) == IF o = 0 THEN b ELSE [b EXCEPT ![o] = m]

\* Sched::resume, lines 120 and 140: the slot tracks another coroutine
SwapNever(o, d) == FALSE
MustSwap(o, d) == o # d

\* Sched::new_coroutine(cb): a descriptor from the free list of the pool,
\* or a fresh one; it has no context
StNew ==
    /\ ext.srun = 0
    /\ ext.ids # <<>> \/ ext.nid <= MaxDesc
    /\ LET d == IF ext.ids # <<>> THEN ext.ids[Len(ext.ids)] ELSE ext.nid IN
         ext' = [ext EXCEPT
                   !.ids = IF ext.ids # <<>> THEN SubSeq(@, 1, Len(@) - 1) ELSE @,
                   !.nid = IF ext.ids # <<>> THEN @ ELSE @ + 1,
                   !.ctx[d] = 0,
                   !.dst[d] = "new"]
    /\ UNCHANGED <<procVars, schedVars, crashed, mutexVars, eventVars, wgVars,
                   chanVars, placeVars, rclosed, arg, failed, stopVars,
                   poolVars>>

\* Sched::resume(co), lines 106-149, up to the jump into the coroutine
StResume(d) ==
    /\ d \in Descs
    /\ ext.srun = 0
    /\ ext.dst[d] \in {"new", "susp"}
    /\ LET k == SlotOf(d)
           o == IF ext.p[k] THEN ext.occ[k] ELSE d
       IN ext' = [ext EXCEPT
                    !.srun = d,
                    !.dst[d] = "run",
                    !.p[k] = TRUE,
                    !.occ[k] = d,
                    !.buf = IF MustSwap(o, d) THEN SaveStack(@, o, ext.mem[k])
                            ELSE @,
                    !.ctx[d] = IF ext.ctx[d] = 0 THEN 1 ELSE @,
                    !.mem[k] = IF ext.ctx[d] = 0 THEN <<d, 0>>
                               ELSE IF MustSwap(o, d) THEN ext.buf[d]
                               ELSE @]
    /\ UNCHANGED <<procVars, schedVars, crashed, mutexVars, eventVars, wgVars,
                   chanVars, placeVars, rclosed, arg, failed, stopVars,
                   poolVars>>

\* the coroutine runs and yields with v frames on its stack; Sched::resume,
\* lines 151-155, stores the context of the yield
StYield(d, v) ==
    /\ d \in Descs
    /\ v \in 1..MaxVer
    /\ ops > 0
    /\ ext.srun = d
    /\ ops' = ops - 1
    /\ ext' = [ext EXCEPT
                 !.srun = 0,
                 !.dst[d] = "susp",
                 !.mem[SlotOf(d)] = <<d, v>>,
                 !.ctx[d] = v + 1,
                 !.seen[d] = <<d, v>>]
    /\ UNCHANGED <<pc, cst, schedVars, crashed, mutexVars, eventVars, wgVars,
                   chanVars, placeVars, rclosed, arg, failed, stopVars,
                   poolVars>>

\* the closure returns: main_func jumps back, Sched::resume, lines 156-161,
\* clears the occupant of the slot and recycles the descriptor
StEnd(d) ==
    /\ d \in Descs
    /\ ext.srun = d
    /\ ext' = [ext EXCEPT
                 !.srun = 0,
                 !.dst[d] = "free",
                 !.occ[SlotOf(d)] = 0,
                 !.ids = Append(@, d)]
    /\ UNCHANGED <<procVars, schedVars, crashed, mutexVars, eventVars, wgVars,
                   chanVars, placeVars, rclosed, arg, failed, stopVars,
                   poolVars>>

InitStack ==
    /\ ops = StackOps
    /\ InitSched
    /\ InitMutex
    /\ InitEvent(FALSE, FALSE, 0)
    /\ InitChan(1, "inf")
    /\ InitPlace
    /\ InitOther

NextStack ==
    \/ StNew
    \/ \E d \in Descs : StResume(d)
    \/ \E d \in Descs, v \in 1..MaxVer : StYield(d, v)
    \/ \E d \in Descs : StEnd(d)

SpecStack == InitStack /\ [][NextStack]_vars

\* the coroutine the slot of d tracks when d is resumed
Tracked(d) == IF ext.p[SlotOf(d)] THEN ext.occ[SlotOf(d)] ELSE d

\* C38: the slot of the running coroutine tracks it as occupant; a resume
\* onto a slot that tracks another suspended coroutine saves the live
\* region of that coroutine into its buffer before the slot is
\* overwritten; the stack a coroutine finds when it is resumed is the
\* stack it left at its last yield.
C38_StackIntegrity ==
    /\ [](ext.srun # 0 => ext.occ[SlotOf(ext.srun)] = ext.srun)
    /\ [][\A d \in Descs :
            StResume(d) =>
              /\ (Tracked(d) \notin {d, 0} /\ ext.dst[Tracked(d)] = "susp")
                   => /\ ext'.buf[Tracked(d)] = ext.mem[SlotOf(d)]
                      /\ ext'.buf[Tracked(d)] = ext.seen[Tracked(d)]
              /\ (ext.dst[d] = "susp" /\ Tracked(d) # d)
                   => ext.buf[d] = <<d, ext.ctx[d] - 1>>
              /\ ext.dst[d] = "susp"
                   => ext'.mem[SlotOf(d)] = ext.seen[d]]_vars

\* a coroutine runs again with the stack of its last yield on a slot that
\* another coroutine has used since; that coroutine is suspended with its
\* stack in its buffer
C38_Witness ==
    \E d \in Descs, e \in Descs :
      /\ d # e
      /\ SlotOf(d) = SlotOf(e)
      /\ ext.srun = d
      /\ ext.ctx[d] > 1
      /\ ext.mem[SlotOf(d)] = ext.seen[d]
      /\ ext.buf[d] = ext.seen[d]
      /\ ext.dst[e] = "susp"
      /\ ext.buf[e] = ext.seen[e]
      /\ ext.buf[e][1] = e

\* ------------------------------------------------------------------------
\* The life cycle of a coroutine descriptor (sched.cc 82-93, 118-163)
\* ------------------------------------------------------------------------

\* number of times descriptor d is in the free list of the pool
InPool(d) == Cardinality({i \in 1..Len(ext.ids) : ext.ids[i] = d})

\* the parts of C39 on the descriptors themselves: a coroutine that has
\* been resumed and has not terminated has a saved context, which every
\* yield replaces; the return of the closure clears the occupant of the
\* slot and puts the descriptor into the pool once; only a descriptor that
\* was handed out is resumed
C39_Descriptors ==
    /\ [](\A d \in Descs :
            /\ ext.dst[d] \in {"run", "susp"} => ext.ctx[d] # 0
            /\ InPool(d) = IF ext.dst[d] = "free" /\ d < ext.nid THEN 1 ELSE 0)
    /\ [][\A d \in Descs :
            /\ (\E v \in 1..MaxVer : StYield(d, v))
                 => (ext'.ctx[d] # 0 /\ ext'.ctx[d] = ext'.seen[d][2] + 1)
            /\ StEnd(d)
                 => /\ ext'.occ[SlotOf(d)] = 0
                    /\ ext'.ids = Append(ext.ids, d)
            /\ StResume(d) => InPool(d) = 0]_vars

\* C39: a descriptor that was recycled at the return of its closure is
\* not resumed again before it is handed out for a new task: the
\* scheduler resumes only coroutines that are new or suspended.
C39_NoResumeAfterRecycle ==
    [][\A s \in Scheds :
         SchedResume(s) => cst[Head(batch[s])] \in {"new", "susp"}]_vars

\* the scheduler is about to resume a coroutine that has terminated
C39_DeadInBatch ==
    \E s \in Scheds :
      /\ phase[s] = "tasks"
      /\ running[s] = None
      /\ batch[s] # <<>>
      /\ cst[Head(batch[s])] = "dead"

\* ------------------------------------------------------------------------
\* The std::mutex of the primitives and of the mailboxes (co.cc 126-179
\* mutex_impl, 209-319 event_impl, 485-739 pipe_impl).  A call is the
\* sequence of its lock and unlock steps; ext.lk is the holder of every
\* lock, ext.todo the steps a thread still has to take in its call,
\* ext.lop the call.
\* ------------------------------------------------------------------------

Acq(l) == <<"acq", l>>
Rel(l) == <<"rel", l>>

\* add_ready_task, add_new_task and get_all_tasks on scheduler s: the
\* mailbox mutex is taken and released, nothing is called under it
Mailbox(s) == <<Acq(s), Rel(s)>>

\* mutex_impl::unlock, lines 163-179, with a coroutine at the head of _wq:
\* _m is released at line 171, before add_ready_task at line 172
UnlockNested(s) == <<Acq("mutex"), Acq(s), Rel(s), Rel("mutex")>>
UnlockCo(s) == <<Acq("mutex"), Rel("mutex")>> \o Mailbox(s)

\* event_impl::signal, lines 266-319: the first waiter is put into its
\* mailbox under _m (line 288), the others after the block (line 314)
SignalCo(s, r) ==
    <<Acq("event")>> \o Mailbox(s) \o <<Rel("event")>> \o Mailbox(r)

\* pipe_impl::close, lines 711-739: every blocked reader is put into its
\* mailbox under _m (line 725)
CloseCo(s, r) ==
    <<Acq("chan")>> \o Mailbox(s) \o Mailbox(r) \o <<Rel("chan")>>

\* pipe_impl::read and write with a hand-off, lines 509-511 and 626-630:
\* _m is released before add_ready_task
HandOffCo(s) == <<Acq("chan"), Rel("chan")>> \o Mailbox(s)

\* a call that ends inside the critical section of the primitive
\* (try_lock, lock, unlock without a coroutine to wake, wait, reset,
\* signal and close without waiters, read and write on the buffer), and
\* a thread that waits on _cv in it: the wait releases _m and takes it
\* again
Plain(l) == <<Acq(l), Rel(l)>>
CvWait(l) == <<Acq(l), Rel(l), Acq(l), Rel(l)>>

\* the calls a thread can make
Calls ==
    {[op |-> "task", steps |-> Mailbox(s)] : s \in Scheds}
      \cup {[op |-> "unlock", steps |-> UnlockCo(s)] : s \in Scheds}
      \cup {[op |-> "signal", steps |-> SignalCo(e[1], e[2])] :
              e \in Scheds \X Scheds}
      \cup {[op |-> "close", steps |-> CloseCo(e[1], e[2])] :
              e \in Scheds \X Scheds}
      \cup {[op |-> "rw", steps |-> HandOffCo(s)] : s \in Scheds}
      \cup {[op |-> "plain", steps |-> Plain(l)] : l \in PrimLocks}
      \cup {[op |-> "cvwait", steps |-> CvWait(l)] : l \in PrimLocks}

\* a thread enters a call of a primitive, posts a task, or, on a
\* scheduler thread, drains its mailbox
LkStart(t, call) ==
    /\ t \in LkThreads
    /\ call \in Calls
    /\ ops > 0
    /\ ext.todo[t] = <<>>
    /\ call.op = "cvwait" => t \in Threads
    /\ ops' = ops - 1
    /\ ext' = [ext EXCEPT !.todo[t] = call.steps, !.lop[t] = call.op]
    /\ UNCHANGED <<pc, cst, schedVars, crashed, mutexVars, eventVars, wgVars,
                   chanVars, placeVars, rclosed, arg, failed, stopVars,
                   poolVars>>

\* std::mutex::lock returns when the mutex is free
LkAcquire(t) ==
    /\ t \in LkThreads
    /\ ext.todo[t] # <<>>
    /\ Head(ext.todo[t])[1] = "acq"
    /\ ext.lk[Head(ext.todo[t])[2]] = None
    /\ ext' = [ext EXCEPT !.lk[Head(ext.todo[t])[2]] = t,
                          !.todo[t] = Tail(@)]
    /\ UNCHANGED <<procVars, schedVars, crashed, mutexVars, eventVars, wgVars,
                   chanVars, placeVars, rclosed, arg, failed, stopVars,
                   poolVars>>

\* std::mutex::unlock; the call is over after its last step
LkRelease(t) ==
    /\ t \in LkThreads
    /\ ext.todo[t] # <<>>
    /\ Head(ext.todo[t])[1] = "rel"
    /\ ext' = [ext EXCEPT !.lk[Head(ext.todo[t])[2]] = None,
                          !.todo[t] = Tail(@),
                          !.lop[t] = IF Len(ext.todo[t]) = 1 THEN None ELSE @]
    /\ UNCHANGED <<procVars, schedVars, crashed, mutexVars, eventVars, wgVars,
                   chanVars, placeVars, rclosed, arg, failed, stopVars,
                   poolVars>>

InitLocks ==
    /\ ops = LockOps
    /\ InitSched
    /\ InitMutex
    /\ InitEvent(FALSE, FALSE, 0)
    /\ InitChan(1, "inf")
    /\ InitPlace
    /\ InitOther

NextLocks ==
    \/ \E t \in LkThreads, call \in Calls : LkStart(t, call)
    \/ \E t \in LkThreads : LkAcquire(t)
    \/ \E t \in LkThreads : LkRelease(t)

SpecLocks == InitLocks /\ [][NextLocks]_vars

\* the locks thread t holds
HeldBy(t) == {l \in Locks : ext.lk[l] = t}

\* thread t is blocked in std::mutex::lock
InLockCall(t) ==
    /\ ext.todo[t] # <<>>
    /\ Head(ext.todo[t])[1] = "acq"
    /\ ext.lk[Head(ext.todo[t])[2]] # None

\* the thread that holds the lock t is blocked on
WaitsFor(t) == ext.lk[Head(ext.todo[t])[2]]

\* following the wait-for edges from t ends at a thread that can run
RECURSIVE Runs(_, _)
Runs(t, n) ==
    IF ~InLockCall(t) THEN TRUE
    ELSE IF n = 0 THEN FALSE
    ELSE Runs(WaitsFor(t), n - 1)

\* C40: no thread acquires the internal mutex of a mutex, event or
\* channel while it holds a mailbox mutex; a thread that holds two of
\* these locks holds one primitive mutex and one mailbox mutex, took them
\* in this order, and is in event signal() or channel close(); the
\* wait-for graph over the locks has no cycle, and whenever a thread is
\* inside a call some thread can take its next step.
C40_LockOrder ==
    /\ [][\A t \in LkThreads :
            (LkAcquire(t) /\ Head(ext.todo[t])[2] \in PrimLocks)
              => HeldBy(t) = {}]_vars
    /\ [](\A t \in LkThreads :
            /\ Cardinality(HeldBy(t)) <= 2
            /\ Cardinality(HeldBy(t)) = 2
                 => /\ Cardinality(HeldBy(t) \cap PrimLocks) = 1
                    /\ ext.lop[t] \in {"signal", "close"}
            /\ Runs(t, Cardinality(LkThreads)))
    /\ []((\E t \in LkThreads : ext.todo[t] # <<>>)
            => \E t \in LkThreads : ext.todo[t] # <<>> /\ ~InLockCall(t))

\* a thread in signal() holds the mutex of the event and waits for the
\* mailbox mutex of a scheduler whose thread is draining the mailbox,
\* while a third thread waits for the mutex of the event
C40_Witness ==
    \E t \in LkThreads, s \in Scheds, u \in LkThreads :
      /\ ext.lop[t] = "signal"
      /\ ext.lk["event"] = t
      /\ InLockCall(t)
      /\ WaitsFor(t) = s
      /\ ext.lop[s] = "task"
      /\ ext.lk[s] = s
      /\ InLockCall(u)
      /\ WaitsFor(u) = t

====
